---- MODULE Spec2Model ----
(***************************************************************************)
(* Model of the quiz application's mistake-review scheduler                *)
(* (src/models/MistakeBook.js) and of its client-side export/import        *)
(* scripts (src/unnamed/part_000, src/unnamed/part_001,                    *)
(* src/cross-device-sync.js).                                              *)
(*                                                                         *)
(* Time is counted in whole days: `now` is the value Date.now() returns.   *)
(* A mistake document is a record holding the schema paths the handlers    *)
(* read or write.  Document.save() is modelled as Mongoose performs it:    *)
(* validation, then the pre('save') hook, then an update that writes only  *)
(* the paths whose in-memory value differs from the value that was loaded  *)
(* (the schema sets versionKey: false, so no version check is made).       *)
(***************************************************************************)
EXTENDS Integers, Sequences, FiniteSets, TLC

VARIABLES
    db,       \* MistakeBook collection: mistake id -> document or NoDoc
    nextId,   \* the next fresh _id the store hands out
    now,      \* Date.now(), in days
    calls,    \* number of handler calls served so far
    result,   \* outcome of the handler call served last
    run,      \* history: per mistake id, the current streak of correct reviews
    req,      \* per server request slot: a recordReview call in flight
    race,     \* history: the last pair of overlapping recordReview calls
    app,      \* per device: window.app's banks and study statistics
    doc,      \* the sync document last exported or handed to an import
    imp,      \* outcome of the import served last
    cloud,    \* the CloudSyncManager of src/sync-app.js and its autoSync calls
    cross,    \* the CrossDeviceSync of src/cross-device-sync.js and its performSync calls
    conn,     \* module state of src/config/db.js, its timers and the process
    exams,    \* ExamRecord collection: exam id -> document or NoExam
    stats,    \* the studyStats of the signed-in user's UserData document
    account,  \* the security paths of a User document, and the login clock
    server    \* the FileServer of src/unnamed/part_002, and its clock

vars == <<db, nextId, now, calls, result, run, req, race, app, doc, imp,
          cloud, cross, conn, exams, stats, account, server>>

mistakeVars == <<db, nextId, now, calls, result, run, req, race>>
syncVars == <<app, doc, imp>>
\* what the devices' actions leave alone on the server
syncFrame == <<db, nextId, now, result, run, req, race>>
serviceVars == <<cloud, cross, conn, exams>>
siteVars == <<stats, account, server>>

----------------------------------------------------------------------------
(* Bounds of the model *)

MaxTime == 1
MaxCalls == 2
MaxRecords == 2
MaxSeedRounds == 4
MaxSeedMiss == 1
MaxLimit == 2
MaxBankLen == 4
MaxSyncCalls == 3
MaxExams == 1
MaxStatRecords == 2
MaxLogins == 6
MaxLoginTicks == 3
MaxServerTicks == 2

Users == {"u1", "u2"}
Questions == {"q1", "q2"}
MistakeIds == 1..MaxRecords
\* importance as a caller may send it: 0 stands for an absent (falsy) value,
\* 6 is outside the schema's range
ImportanceInputs == {0, 4, 6}

NoDate == -1
NoDoc == [user |-> "none"]

Min(a, b) == IF a < b THEN a ELSE b
Max(a, b) == IF a > b THEN a ELSE b

----------------------------------------------------------------------------
(* MistakeBook schema and hooks *)

\* schema defaults of a document built by `new this(mistakeData)`
NewDoc(u, q, importance, t) ==
    [user |-> u, question |-> q,
     importance |-> IF importance = 0 THEN 3 ELSE importance,
     masteryLevel |-> 1,
     reviewStatus |-> "unreviewed",
     reviewCount |-> 0,
     lastReviewDate |-> NoDate,
     nextReviewDate |-> t,
     consecutiveCorrect |-> 0,
     totalAttempts |-> 1,
     correctAttempts |-> 0,
     errorRate |-> 100,
     isArchived |-> FALSE,
     archiveDate |-> NoDate,
     viewCount |-> 0,
     updatedAt |-> t]

\* min/max validators of the schema, run by save() before the pre('save') hook
Validate(d) ==
    /\ d.importance >= 1 /\ d.importance <= 5
    /\ d.masteryLevel >= 1 /\ d.masteryLevel <= 5

\* Math.round(((total - correct) / total) * 100) for 0 <= correct <= total
ErrorRate(total, correct) == (200 * (total - correct) + total) \div (2 * total)

PreSaveNoArchive(d, t) ==
    LET d1 == [d EXCEPT !.updatedAt = t]
        d2 == IF d1.totalAttempts > 0
              THEN [d1 EXCEPT !.errorRate = ErrorRate(d1.totalAttempts, d1.correctAttempts)]
              ELSE d1
    IN  IF d2.consecutiveCorrect >= 3
        THEN [d2 EXCEPT !.masteryLevel = Min(5, d2.masteryLevel + 1),
                        !.consecutiveCorrect = 0]
        ELSE d2

PreSaveFollowsLevel(d, t) ==
    LET d1 == [d EXCEPT !.updatedAt = t]
        d2 == IF d1.totalAttempts > 0
              THEN [d1 EXCEPT !.errorRate = ErrorRate(d1.totalAttempts, d1.correctAttempts)]
              ELSE d1
        d3 == IF d2.consecutiveCorrect >= 3
              THEN [d2 EXCEPT !.masteryLevel = Min(5, d2.masteryLevel + 1),
                              !.consecutiveCorrect = 0]
              ELSE d2
    IN  IF d3.masteryLevel >= 5 /\ d3.reviewStatus # "mastered"
        THEN [d3 EXCEPT !.reviewStatus = "mastered",
                        !.isArchived = TRUE,
                        !.archiveDate = t]
        ELSE IF d3.masteryLevel < 5 /\ d3.isArchived
             THEN [d3 EXCEPT !.reviewStatus = "reviewing", !.isArchived = FALSE]
             ELSE d3

\* mistakeBookSchema.pre('save')
PreSave(d, t) ==
    LET d1 == [d EXCEPT !.updatedAt = t]
        d2 == IF d1.totalAttempts > 0
              THEN [d1 EXCEPT !.errorRate = ErrorRate(d1.totalAttempts, d1.correctAttempts)]
              ELSE d1
        d3 == IF d2.consecutiveCorrect >= 3
              THEN [d2 EXCEPT !.masteryLevel = Min(5, d2.masteryLevel + 1),
                              !.consecutiveCorrect = 0]
              ELSE d2
    IN  IF d3.masteryLevel >= 5 /\ d3.reviewStatus # "mastered"
        THEN [d3 EXCEPT !.reviewStatus = "mastered",
                        !.isArchived = TRUE,
                        !.archiveDate = t]
        ELSE d3

SaveWhole(stored, loaded, mem) == mem

\* the update save() sends: $set of the modified paths only
SaveDoc(stored, loaded, mem) ==
    [user |-> IF mem.user # loaded.user THEN mem.user ELSE stored.user,
     question |-> IF mem.question # loaded.question THEN mem.question ELSE stored.question,
     importance |-> IF mem.importance # loaded.importance THEN mem.importance ELSE stored.importance,
     masteryLevel |-> IF mem.masteryLevel # loaded.masteryLevel THEN mem.masteryLevel ELSE stored.masteryLevel,
     reviewStatus |-> IF mem.reviewStatus # loaded.reviewStatus THEN mem.reviewStatus ELSE stored.reviewStatus,
     reviewCount |-> IF mem.reviewCount # loaded.reviewCount THEN mem.reviewCount ELSE stored.reviewCount,
     lastReviewDate |-> IF mem.lastReviewDate # loaded.lastReviewDate THEN mem.lastReviewDate ELSE stored.lastReviewDate,
     nextReviewDate |-> IF mem.nextReviewDate # loaded.nextReviewDate THEN mem.nextReviewDate ELSE stored.nextReviewDate,
     consecutiveCorrect |-> IF mem.consecutiveCorrect # loaded.consecutiveCorrect THEN mem.consecutiveCorrect ELSE stored.consecutiveCorrect,
     totalAttempts |-> IF mem.totalAttempts # loaded.totalAttempts THEN mem.totalAttempts ELSE stored.totalAttempts,
     correctAttempts |-> IF mem.correctAttempts # loaded.correctAttempts THEN mem.correctAttempts ELSE stored.correctAttempts,
     errorRate |-> IF mem.errorRate # loaded.errorRate THEN mem.errorRate ELSE stored.errorRate,
     isArchived |-> IF mem.isArchived # loaded.isArchived THEN mem.isArchived ELSE stored.isArchived,
     archiveDate |-> IF mem.archiveDate # loaded.archiveDate THEN mem.archiveDate ELSE stored.archiveDate,
     viewCount |-> IF mem.viewCount # loaded.viewCount THEN mem.viewCount ELSE stored.viewCount,
     updatedAt |-> IF mem.updatedAt # loaded.updatedAt THEN mem.updatedAt ELSE stored.updatedAt]

----------------------------------------------------------------------------
(* recordReview: the in-memory changes between findOne and save *)

intervals == <<1, 2, 4, 7, 15, 30, 60, 90>>

ApplyReviewKeepsCount(d, isCorrect, t) ==
    LET d1 == [d EXCEPT !.reviewCount = @ + 1, !.lastReviewDate = t]
        d2 == IF isCorrect
              THEN LET c == d1.consecutiveCorrect + 1
                       intervalIndex == Min(c - 1, Len(intervals) - 1)
                       d3 == [d1 EXCEPT !.consecutiveCorrect = c,
                                        !.correctAttempts = @ + 1,
                                        !.nextReviewDate = t + intervals[intervalIndex + 1]]
                   IN  IF c >= 3
                       THEN [d3 EXCEPT !.masteryLevel = Min(5, d3.masteryLevel + 1)]
                       ELSE d3
              ELSE [d1 EXCEPT !.consecutiveCorrect = 0,
                              !.nextReviewDate = t,
                              !.masteryLevel = Max(1, d1.masteryLevel - 1)]
    IN  [d2 EXCEPT !.totalAttempts = @ + 1]

ApplyReviewKeepsStreak(d, isCorrect, t) ==
    LET d1 == [d EXCEPT !.reviewCount = @ + 1, !.lastReviewDate = t]
        d2 == IF isCorrect
              THEN LET c == d1.consecutiveCorrect + 1
                       intervalIndex == Min(c - 1, Len(intervals) - 1)
                       d3 == [d1 EXCEPT !.consecutiveCorrect = c,
                                        !.correctAttempts = @ + 1,
                                        !.nextReviewDate = t + intervals[intervalIndex + 1]]
                   IN  IF c >= 3
                       THEN [d3 EXCEPT !.masteryLevel = Min(5, d3.masteryLevel + 1),
                                       !.consecutiveCorrect = 0]
                       ELSE d3
              ELSE [d1 EXCEPT !.nextReviewDate = t,
                              !.masteryLevel = Max(1, d1.masteryLevel - 1)]
    IN  [d2 EXCEPT !.totalAttempts = @ + 1]

ApplyReviewIndexOffByOne(d, isCorrect, t) ==
    LET d1 == [d EXCEPT !.reviewCount = @ + 1, !.lastReviewDate = t]
        d2 == IF isCorrect
              THEN LET c == d1.consecutiveCorrect + 1
                       intervalIndex == Min(c, Len(intervals) - 1)
                       d3 == [d1 EXCEPT !.consecutiveCorrect = c,
                                        !.correctAttempts = @ + 1,
                                        !.nextReviewDate = t + intervals[intervalIndex + 1]]
                   IN  IF c >= 3
                       THEN [d3 EXCEPT !.masteryLevel = Min(5, d3.masteryLevel + 1),
                                       !.consecutiveCorrect = 0]
                       ELSE d3
              ELSE [d1 EXCEPT !.consecutiveCorrect = 0,
                              !.nextReviewDate = t,
                              !.masteryLevel = Max(1, d1.masteryLevel - 1)]
    IN  [d2 EXCEPT !.totalAttempts = @ + 1]

ApplyReviewDropsTwo(d, isCorrect, t) ==
    LET d1 == [d EXCEPT !.reviewCount = @ + 1, !.lastReviewDate = t]
        d2 == IF isCorrect
              THEN LET c == d1.consecutiveCorrect + 1
                       intervalIndex == Min(c - 1, Len(intervals) - 1)
                       d3 == [d1 EXCEPT !.consecutiveCorrect = c,
                                        !.correctAttempts = @ + 1,
                                        !.nextReviewDate = t + intervals[intervalIndex + 1]]
                   IN  IF c >= 3
                       THEN [d3 EXCEPT !.masteryLevel = Min(5, d3.masteryLevel + 1),
                                       !.consecutiveCorrect = 0]
                       ELSE d3
              ELSE [d1 EXCEPT !.consecutiveCorrect = 0,
                              !.nextReviewDate = t,
                              !.masteryLevel = Max(1, d1.masteryLevel - 2)]
    IN  [d2 EXCEPT !.totalAttempts = @ + 1]

ApplyReviewCountsReviews(d, isCorrect, t) ==
    LET d1 == [d EXCEPT !.reviewCount = @ + 1, !.lastReviewDate = t]
        d2 == IF isCorrect
              THEN LET c == d1.consecutiveCorrect + 1
                       intervalIndex == Min(d1.reviewCount - 1, Len(intervals) - 1)
                       d3 == [d1 EXCEPT !.consecutiveCorrect = c,
                                        !.correctAttempts = @ + 1,
                                        !.nextReviewDate = t + intervals[intervalIndex + 1]]
                   IN  IF c >= 3
                       THEN [d3 EXCEPT !.masteryLevel = Min(5, d3.masteryLevel + 1),
                                       !.consecutiveCorrect = 0]
                       ELSE d3
              ELSE [d1 EXCEPT !.consecutiveCorrect = 0,
                              !.nextReviewDate = t,
                              !.masteryLevel = Max(1, d1.masteryLevel - 1)]
    IN  [d2 EXCEPT !.totalAttempts = @ + 1]

ApplyReview(d, isCorrect, t) ==
    LET d1 == [d EXCEPT !.reviewCount = @ + 1, !.lastReviewDate = t]
        d2 == IF isCorrect
              THEN LET c == d1.consecutiveCorrect + 1
                       intervalIndex == Min(c - 1, Len(intervals) - 1)
                       d3 == [d1 EXCEPT !.consecutiveCorrect = c,
                                        !.correctAttempts = @ + 1,
                                        !.nextReviewDate = t + intervals[intervalIndex + 1]]
                   IN  IF c >= 3
                       THEN [d3 EXCEPT !.masteryLevel = Min(5, d3.masteryLevel + 1),
                                       !.consecutiveCorrect = 0]
                       ELSE d3
              ELSE [d1 EXCEPT !.consecutiveCorrect = 0,
                              !.nextReviewDate = t,
                              !.masteryLevel = Max(1, d1.masteryLevel - 1)]
    IN  [d2 EXCEPT !.totalAttempts = @ + 1]

\* the document stored after one recordReview served to completion
Reviewed(d, isCorrect, t) == SaveDoc(d, d, PreSave(ApplyReview(d, isCorrect, t), t))

RECURSIVE ReviewTimes(_, _, _)
\* k correct reviews in a row (the test on d1 makes the evaluation of one
\* review finish before the next one starts)
ReviewTimes(d, k, t) ==
    LET d1 == Reviewed(d, TRUE, t)
    IN  IF k = 0 \/ d1.reviewCount = d.reviewCount THEN d ELSE ReviewTimes(d1, k - 1, t)

----------------------------------------------------------------------------
(* Sequential server: one request is handled to completion *)

NoRun == [m0 |-> 0, n |-> 0]
Procs == {1, 2}
Idle == [pc |-> "idle"]
NoRace == [id |-> 0]

\* what a handler call left behind: its name, its outcome ("ok", "notfound",
\* "error"), its arguments, the document it found and the time of the call
Res(op, status, id, u) ==
    [op |-> op, status |-> status, id |-> id, user |-> u, isCorrect |-> FALSE,
     before |-> NoDoc, at |-> now, limit |-> 0, returned |-> <<>>]

FindAnyOwner(id, u) == db[id] # NoDoc

\* findOne({ _id: mistakeId, user: userId })
FindOwned(id, u) == db[id] # NoDoc /\ db[id].user = u

\* the documents findOne({ user, question, 'metadata.isArchived': false }) matches
ActiveFor(u, q) ==
    {i \in MistakeIds : db[i] # NoDoc /\ db[i].user = u /\ db[i].question = q
                        /\ ~db[i].isArchived}

MinOf(S) == CHOOSE x \in S : \A y \in S : x <= y

\* a record of user u1 with a past: created, reviewed correctly j times,
\* then (if miss) once incorrectly, then correctly k times, all on day 0
Seed(j, miss, k) ==
    LET d0 == ReviewTimes(PreSave(NewDoc("u1", "q1", 0, 0), 0), j, 0)
        d1 == IF miss THEN Reviewed(d0, FALSE, 0) ELSE d0
    IN  ReviewTimes(d1, k, 0)

SeedRun(j, miss, k) ==
    IF miss
    THEN [m0 |-> Reviewed(ReviewTimes(PreSave(NewDoc("u1", "q1", 0, 0), 0), j, 0), FALSE, 0).masteryLevel,
          n |-> k]
    ELSE [m0 |-> 1, n |-> j + k]

\* the pasts the store starts from: no review yet; a streak that is one
\* correct review short of a round of three, for each round up to
\* MaxSeedRounds; or a miss after two or four full rounds followed by up to
\* MaxSeedMiss correct reviews
Histories ==
    {<<0, FALSE, 0>>}
    \cup {<<0, FALSE, 3 * i + 2>> : i \in 0..MaxSeedRounds}
    \cup {<<j, TRUE, k>> : j \in {6, 12}, k \in 0..MaxSeedMiss}

createMistakeRecord(u, q, importance) ==
    /\ calls < MaxCalls
    /\ IF ActiveFor(u, q) # {}
       THEN LET e == MinOf(ActiveFor(u, q))
                mem == [db[e] EXCEPT !.totalAttempts = @ + 1,
                                     !.importance = IF importance = 0 THEN @ ELSE importance]
            IN  IF Validate(mem)
                THEN /\ db' = [db EXCEPT ![e] = SaveDoc(db[e], db[e], PreSave(mem, now))]
                     /\ result' = [Res("createMistakeRecord", "ok", e, u) EXCEPT !.before = db[e]]
                     /\ UNCHANGED <<nextId, run>>
                ELSE /\ result' = Res("createMistakeRecord", "error", e, u)
                     /\ UNCHANGED <<db, nextId, run>>
       ELSE LET mem == NewDoc(u, q, importance, now)
            IN  IF Validate(mem)
                THEN /\ nextId <= MaxRecords
                     /\ db' = [db EXCEPT ![nextId] = PreSave(mem, now)]
                     /\ nextId' = nextId + 1
                     /\ run' = [run EXCEPT ![nextId] = [m0 |-> db'[nextId].masteryLevel, n |-> 0]]
                     /\ result' = Res("createMistakeRecord", "ok", nextId, u)
                ELSE /\ result' = Res("createMistakeRecord", "error", 0, u)
                     /\ UNCHANGED <<db, nextId, run>>
    /\ calls' = calls + 1
    /\ UNCHANGED <<now, req, race, syncVars, serviceVars, siteVars>>

recordReview(id, u, isCorrect) ==
    /\ calls < MaxCalls
    /\ IF ~FindOwned(id, u)
       THEN /\ result' = [Res("recordReview", "notfound", id, u) EXCEPT !.isCorrect = isCorrect]
            /\ UNCHANGED <<db, run>>
       ELSE LET mem == ApplyReview(db[id], isCorrect, now)
            IN  IF Validate(mem)
                THEN /\ db' = [db EXCEPT ![id] = SaveDoc(db[id], db[id], PreSave(mem, now))]
                     /\ run' = [run EXCEPT ![id] =
                                    IF isCorrect THEN [@ EXCEPT !.n = @ + 1]
                                    ELSE [m0 |-> db'[id].masteryLevel, n |-> 0]]
                     /\ result' = [Res("recordReview", "ok", id, u) EXCEPT
                                      !.isCorrect = isCorrect, !.before = db[id]]
                ELSE /\ result' = [Res("recordReview", "error", id, u) EXCEPT !.isCorrect = isCorrect]
                     /\ UNCHANGED <<db, run>>
    /\ calls' = calls + 1
    /\ UNCHANGED <<nextId, now, req, race, syncVars, serviceVars, siteVars>>

\* updateData assigns importance, the one schema path of the patches modelled
updateMistake(id, u, importance) ==
    /\ calls < MaxCalls
    /\ IF ~FindOwned(id, u)
       THEN /\ result' = Res("updateMistake", "notfound", id, u)
            /\ UNCHANGED db
       ELSE LET mem == [db[id] EXCEPT !.importance = importance]
            IN  IF Validate(mem)
                THEN /\ db' = [db EXCEPT ![id] = SaveDoc(db[id], db[id], PreSave(mem, now))]
                     /\ result' = [Res("updateMistake", "ok", id, u) EXCEPT !.before = db[id]]
                ELSE /\ result' = Res("updateMistake", "error", id, u)
                     /\ UNCHANGED db
    /\ calls' = calls + 1
    /\ UNCHANGED <<nextId, now, run, req, race, syncVars, serviceVars, siteVars>>

deleteMistake(id, u) ==
    /\ calls < MaxCalls
    /\ IF ~FindOwned(id, u)
       THEN /\ result' = Res("deleteMistake", "notfound", id, u)
            /\ UNCHANGED <<db, run>>
       ELSE /\ db' = [db EXCEPT ![id] = NoDoc]
            /\ run' = [run EXCEPT ![id] = NoRun]
            /\ result' = [Res("deleteMistake", "ok", id, u) EXCEPT !.before = db[id]]
    /\ calls' = calls + 1
    /\ UNCHANGED <<nextId, now, req, race, syncVars, serviceVars, siteVars>>

archiveMistake(id, u) ==
    /\ calls < MaxCalls
    /\ IF ~FindOwned(id, u)
       THEN /\ result' = Res("archiveMistake", "notfound", id, u)
            /\ UNCHANGED db
       ELSE LET mem == [db[id] EXCEPT !.isArchived = TRUE,
                                      !.archiveDate = now,
                                      !.reviewStatus = "mastered"]
            IN  /\ db' = [db EXCEPT ![id] = SaveDoc(db[id], db[id], PreSave(mem, now))]
                /\ result' = [Res("archiveMistake", "ok", id, u) EXCEPT !.before = db[id]]
    /\ calls' = calls + 1
    /\ UNCHANGED <<nextId, now, run, req, race, syncVars, serviceVars, siteVars>>

getMistakeById(id, u) ==
    /\ calls < MaxCalls
    /\ IF ~FindOwned(id, u)
       THEN /\ result' = Res("getMistakeById", "notfound", id, u)
            /\ UNCHANGED db
       ELSE LET mem == [db[id] EXCEPT !.viewCount = @ + 1]
            IN  /\ db' = [db EXCEPT ![id] = SaveDoc(db[id], db[id], PreSave(mem, now))]
                /\ result' = [Res("getMistakeById", "ok", id, u) EXCEPT !.before = db[id]]
    /\ calls' = calls + 1
    /\ UNCHANGED <<nextId, now, run, req, race, syncVars, serviceVars, siteVars>>

----------------------------------------------------------------------------
(* Review queries *)

\* the orders a query may list the documents S in; a sort keeps those in
\* which no document comes after one it should precede, and documents the
\* sort key does not separate come in any order
Orders(S) ==
    {s \in [1..Cardinality(S) -> S] : \A i, j \in 1..Cardinality(S) : i # j => s[i] # s[j]}

Take(s, n) == SubSeq(s, 1, Min(n, Len(s)))

\* { user, 'metadata.isArchived': false, 'reviewInfo.nextReviewDate': { $lte: Date.now() } }
DueMatch(u) ==
    {i \in MistakeIds : db[i] # NoDoc /\ db[i].user = u /\ ~db[i].isArchived
                        /\ db[i].nextReviewDate <= now}

\* .sort({ importance: -1, 'reviewInfo.nextReviewDate': 1 })
DueBefore(a, b) ==
    \/ db[a].importance > db[b].importance
    \/ /\ db[a].importance = db[b].importance
       /\ db[a].nextReviewDate < db[b].nextReviewDate

DueSorted(u) ==
    {s \in Orders(DueMatch(u)) :
        \A i, j \in 1..Len(s) : i < j => ~DueBefore(s[j], s[i])}

getDueForReview(u, limit) ==
    /\ calls < MaxCalls
    /\ \E s \in DueSorted(u) :
          result' = [Res("getDueForReview", "ok", 0, u) EXCEPT !.limit = limit, !.returned = Take(s, limit)]
    /\ calls' = calls + 1
    /\ UNCHANGED <<db, nextId, now, run, req, race, syncVars, serviceVars, siteVars>>

\* $match: { user, 'metadata.isArchived': false }
RecommendedMatch(u) ==
    {i \in MistakeIds : db[i] # NoDoc /\ db[i].user = u /\ ~db[i].isArchived}

\* the value "$isOverdue" has inside the $addFields stage that defines
\* isOverdue: the stage evaluates every expression on its input document,
\* and a stored document has no isOverdue path, so $cond sees a missing value
InputIsOverdue(d) == IF "isOverdue" \in DOMAIN d THEN d.isOverdue ELSE FALSE

\* twice reviewScore, so that errorRate * 0.5 stays an integer
reviewScore2(d) ==
    2 * (d.importance * 20)
    + 2 * ((6 - d.masteryLevel) * 15)
    + 2 * (IF InputIsOverdue(d) THEN 50 ELSE 0)
    + d.errorRate

\* { $sort: { reviewScore: -1 } }
RecommendedBefore(a, b) == reviewScore2(db[a]) > reviewScore2(db[b])

RecommendedSorted(u) ==
    {s \in Orders(RecommendedMatch(u)) :
        \A i, j \in 1..Len(s) : i < j => ~RecommendedBefore(s[j], s[i])}

getRecommendedForReview(u, count) ==
    /\ calls < MaxCalls
    /\ \E s \in RecommendedSorted(u) :
          result' = [Res("getRecommendedForReview", "ok", 0, u) EXCEPT !.limit = count, !.returned = Take(s, count)]
    /\ calls' = calls + 1
    /\ UNCHANGED <<db, nextId, now, run, req, race, syncVars, serviceVars, siteVars>>

\* a day passes
Tick ==
    /\ now < MaxTime
    /\ now' = now + 1
    /\ UNCHANGED <<db, nextId, calls, result, run, req, race, syncVars, serviceVars, siteVars>>

----------------------------------------------------------------------------
(* Client-side stores (window.app) and sync documents.  A document is the   *)
(* object an exporter serialises with JSON.stringify and an importer reads  *)
(* back with JSON.parse: a key whose value is undefined is dropped by the   *)
(* serialiser and reads as undefined again, strings, numbers and arrays     *)
(* come back unchanged.  A key of a document is a record with a `present`   *)
(* flag; an absent key holds no items.                                      *)

Devices == {"A", "B"}

\* an id that is missing from a record (undefined, falsy)
NoId == ""

Question(i, c) == [id |-> i, content |-> c]
ExamRecord(i, d) == [id |-> i, date |-> d]

ZeroStats == [totalQuestions |-> 0, correctAnswers |-> 0, totalStudyTime |-> 0,
              examRecords |-> <<>>]

Absent == [present |-> FALSE, items |-> <<>>]
Present(s) == [present |-> TRUE, items |-> s]
AbsentStats == [present |-> FALSE, value |-> ZeroStats]
PresentStats(v) == [present |-> TRUE, value |-> v]

NoSyncDoc == [exporter |-> "none"]

Ids(items) == {items[k].id : k \in 1..Len(items)}
Dates(records) == {records[k].date : k \in 1..Len(records)}

\* window.app of a device that has never synchronised.  `missing` names the
\* properties that are undefined on window.app (studyStats.examRecords goes by
\* "examRecords"); a missing bank is kept empty and missing statistics zero.
EmptyApp == [publicQuestionBank |-> <<>>, personalQuestionBank |-> <<>>,
             mistakeBank |-> <<>>, studyStats |-> ZeroStats,
             syncStatus |-> "idle", lastSyncTime |-> NoDate, missing |-> {}]

Has(a, key) == key \notin a.missing

\* the part of a store a merge is about
Contents(a) == [publicQuestions |-> a.publicQuestionBank,
                personalQuestions |-> a.personalQuestionBank,
                mistakeBank |-> a.mistakeBank,
                studyStats |-> a.studyStats]

(* SyncManager (src/unnamed/part_000) *)

generateSampleData ==
    [publicQuestions |-> <<Question("sample_pub_1", "s"), Question("sample_pub_2", "s"),
                           Question("sample_pub_3", "s")>>,
     personalQuestions |-> <<Question("sample_per_1", "s"), Question("sample_per_2", "s")>>]

\* the options exportData is called with
ExportOptions ==
    {[includePublic |-> TRUE, includePersonal |-> TRUE, includeMistakes |-> TRUE, includeStats |-> TRUE],
     [includePublic |-> TRUE, includePersonal |-> FALSE, includeMistakes |-> TRUE, includeStats |-> FALSE],
     [includePublic |-> FALSE, includePersonal |-> FALSE, includeMistakes |-> TRUE, includeStats |-> TRUE],
     [includePublic |-> FALSE, includePersonal |-> FALSE, includeMistakes |-> FALSE, includeStats |-> FALSE]}

exportDataDoc(a, dev, o, t) ==
    LET pub == IF o.includePublic /\ Has(a, "publicQuestionBank")
               THEN Present(a.publicQuestionBank) ELSE Absent
        per == IF o.includePersonal /\ Has(a, "personalQuestionBank")
               THEN Present(a.personalQuestionBank) ELSE Absent
        mis == IF o.includeMistakes /\ Has(a, "mistakeBank")
               THEN Present(a.mistakeBank) ELSE Absent
        sts == IF o.includeStats /\ Has(a, "studyStats")
               THEN PresentStats(a.studyStats) ELSE AbsentStats
        dataTypes == (IF pub.present THEN <<"publicQuestions">> ELSE <<>>)
                  \o (IF per.present THEN <<"personalQuestions">> ELSE <<>>)
                  \o (IF mis.present THEN <<"mistakeBank">> ELSE <<>>)
                  \o (IF sts.present THEN <<"studyStats">> ELSE <<>>)
        totalQuestions == Len(pub.items) + Len(per.items)
        sample == Len(dataTypes) = 0 \/ totalQuestions = 0
    IN  [exporter |-> "exportData", nested |-> FALSE, version |-> TRUE,
         deviceId |-> dev, exportTime |-> t,
         dataTypes |-> IF sample THEN Present(<<"publicQuestions", "personalQuestions">>)
                       ELSE Present(dataTypes),
         publicQuestions |-> IF sample THEN Present(generateSampleData.publicQuestions) ELSE pub,
         personalQuestions |-> IF sample THEN Present(generateSampleData.personalQuestions) ELSE per,
         mistakeBank |-> mis,
         studyStats |-> sts,
         isSampleData |-> sample]

validDataTypes == {"publicQuestions", "personalQuestions", "mistakeBank", "studyStats"}

validateImportDataAnyTypes(d) ==
    /\ d.version
    /\ d.exportTime # NoDate
    /\ d.deviceId # NoId

validateImportData(d) ==
    /\ d.version
    /\ d.exportTime # NoDate
    /\ d.deviceId # NoId
    /\ d.dataTypes.present =>
          /\ Len(d.dataTypes.items) # 0
          /\ \A k \in 1..Len(d.dataTypes.items) : d.dataTypes.items[k] \in validDataTypes

removeDuplicatesKeepsAll(newItems, existingItems) == newItems

removeDuplicates(newItems, existingItems) ==
    LET fresh(item) == item.id \notin Ids(existingItems)
    IN  SelectSeq(newItems, fresh)

mergeStudyStatsTakesRecords(targetStats, sourceStats) ==
    [totalQuestions |-> IF sourceStats.totalQuestions > targetStats.totalQuestions
                        THEN sourceStats.totalQuestions ELSE targetStats.totalQuestions,
     correctAnswers |-> IF sourceStats.correctAnswers > targetStats.correctAnswers
                        THEN sourceStats.correctAnswers ELSE targetStats.correctAnswers,
     totalStudyTime |-> IF sourceStats.totalStudyTime > targetStats.totalStudyTime
                        THEN sourceStats.totalStudyTime ELSE targetStats.totalStudyTime,
     examRecords |-> sourceStats.examRecords]

mergeStudyStatsKeepsTime(targetStats, sourceStats) ==
    LET fresh(record) == record.id \notin Ids(targetStats.examRecords)
    IN  [totalQuestions |-> IF sourceStats.totalQuestions > targetStats.totalQuestions
                            THEN sourceStats.totalQuestions ELSE targetStats.totalQuestions,
         correctAnswers |-> IF sourceStats.correctAnswers > targetStats.correctAnswers
                            THEN sourceStats.correctAnswers ELSE targetStats.correctAnswers,
         totalStudyTime |-> targetStats.totalStudyTime,
         examRecords |-> targetStats.examRecords \o SelectSeq(sourceStats.examRecords, fresh)]

mergeStudyStats(targetStats, sourceStats) ==
    LET fresh(record) == record.id \notin Ids(targetStats.examRecords)
    IN  [totalQuestions |-> IF sourceStats.totalQuestions > targetStats.totalQuestions
                            THEN sourceStats.totalQuestions ELSE targetStats.totalQuestions,
         correctAnswers |-> IF sourceStats.correctAnswers > targetStats.correctAnswers
                            THEN sourceStats.correctAnswers ELSE targetStats.correctAnswers,
         totalStudyTime |-> IF sourceStats.totalStudyTime > targetStats.totalStudyTime
                            THEN sourceStats.totalStudyTime ELSE targetStats.totalStudyTime,
         examRecords |-> targetStats.examRecords \o SelectSeq(sourceStats.examRecords, fresh)]

\* a key read at the top level of the document, and one read under `data`
TopKey(d, key) == IF d.nested THEN Absent ELSE d[key]
TopStats(d) == IF d.nested THEN AbsentStats ELSE d.studyStats
DataKey(d, key) == IF d.nested THEN d[key] ELSE Absent
DataStats(d) == IF d.nested THEN d.studyStats ELSE AbsentStats

\* what an import reports as added
Imported(pub, per, mis, sts) ==
    [publicQuestions |-> pub, personalQuestions |-> per, mistakes |-> mis, studyStats |-> sts]

\* one data type of importData: the items appended and whether the step threw
\* (push on a bank that window.app does not have)
importStepSilent(a, key, field) ==
    IF ~field.present \/ ~Has(a, key) THEN [add |-> <<>>, failed |-> FALSE]
    ELSE [add |-> removeDuplicates(field.items, a[key]), failed |-> FALSE]

importStep(a, key, field) ==
    IF ~field.present THEN [add |-> <<>>, failed |-> FALSE]
    ELSE IF ~Has(a, key) THEN [add |-> <<>>, failed |-> TRUE]
    ELSE [add |-> removeDuplicates(field.items, a[key]), failed |-> FALSE]

\* the statistics step of importData: mergeStudyStats returns at once when the
\* store has no statistics, and throws after the scalars when the store's
\* statistics have no examRecords
importStatsStep(a, sts) ==
    IF ~sts.present \/ ~Has(a, "studyStats") THEN [stats |-> a.studyStats, failed |-> FALSE]
    ELSE IF ~Has(a, "examRecords")
         THEN [stats |-> [mergeStudyStats(a.studyStats, sts.value) EXCEPT !.examRecords = <<>>],
               failed |-> TRUE]
         ELSE [stats |-> mergeStudyStats(a.studyStats, sts.value), failed |-> FALSE]

\* importData after the file has been read: the outcome and the store it leaves
importDataResult(a, d, t) ==
    IF ~validateImportData(d)
    THEN [status |-> "rejected", store |-> a, imported |-> Imported(0, 0, 0, FALSE),
          errors |-> <<>>, success |-> FALSE]
    ELSE LET pub == importStep(a, "publicQuestionBank", TopKey(d, "publicQuestions"))
             per == importStep(a, "personalQuestionBank", TopKey(d, "personalQuestions"))
             mis == importStep(a, "mistakeBank", TopKey(d, "mistakeBank"))
             sts == importStatsStep(a, TopStats(d))
             errors == (IF pub.failed THEN <<"publicQuestions">> ELSE <<>>)
                    \o (IF per.failed THEN <<"personalQuestions">> ELSE <<>>)
                    \o (IF mis.failed THEN <<"mistakeBank">> ELSE <<>>)
                    \o (IF sts.failed THEN <<"studyStats">> ELSE <<>>)
         IN  [status |-> "ok",
              store |-> [a EXCEPT !.publicQuestionBank = @ \o pub.add,
                                  !.personalQuestionBank = @ \o per.add,
                                  !.mistakeBank = @ \o mis.add,
                                  !.studyStats = sts.stats,
                                  !.syncStatus = "synced",
                                  !.lastSyncTime = t],
              imported |-> Imported(Len(pub.add), Len(per.add), Len(mis.add),
                                    TopStats(d).present /\ ~sts.failed),
              errors |-> errors,
              success |-> Len(errors) = 0]

(* CrossDeviceSync (src/unnamed/part_001) *)

RECURSIVE removeDuplicateQuestionsFrom(_, _)
removeDuplicateQuestionsFrom(questions, seen) ==
    IF questions = <<>> THEN <<>>
    ELSE LET question == Head(questions)
         IN  IF question.id = NoId
             THEN removeDuplicateQuestionsFrom(Tail(questions), seen)
             ELSE IF question.id \in seen
                  THEN removeDuplicateQuestionsFrom(Tail(questions), seen)
                  ELSE <<question>> \o removeDuplicateQuestionsFrom(Tail(questions), seen \cup {question.id})

removeDuplicateQuestions(questions) == removeDuplicateQuestionsFrom(questions, {})

exportSyncDataDoc(a, dev, t) ==
    [exporter |-> "exportSyncData", nested |-> TRUE, version |-> TRUE,
     deviceId |-> dev, exportTime |-> t,
     dataTypes |-> Absent,
     publicQuestions |-> Present(removeDuplicateQuestions(a.publicQuestionBank)),
     personalQuestions |-> Present(removeDuplicateQuestions(a.personalQuestionBank)),
     mistakeBank |-> Present(removeDuplicateQuestions(a.mistakeBank)),
     studyStats |-> PresentStats(a.studyStats),
     isSampleData |-> FALSE]

validateSyncData(d) ==
    /\ d.deviceId # NoId
    /\ d.exportTime # NoDate
    /\ d.nested

\* mergePublicQuestions, mergePersonalQuestions and mergeMistakeBank share this body
mergeQuestions(currentQuestions, newQuestions) ==
    LET fresh(q) == q.id \notin Ids(currentQuestions)
    IN  SelectSeq(newQuestions, fresh)

mergeStudyStatsByDateTakesIncoming(appStats, importedStats) ==
    LET fresh(record) == record.date \notin Dates(appStats.examRecords)
    IN  [totalQuestions |-> importedStats.totalQuestions,
         correctAnswers |-> importedStats.correctAnswers,
         totalStudyTime |-> importedStats.totalStudyTime,
         examRecords |-> appStats.examRecords \o SelectSeq(importedStats.examRecords, fresh)]

mergeStudyStatsByDate(appStats, importedStats) ==
    LET fresh(record) == record.date \notin Dates(appStats.examRecords)
    IN  [totalQuestions |-> IF importedStats.totalQuestions > appStats.totalQuestions
                            THEN importedStats.totalQuestions ELSE appStats.totalQuestions,
         correctAnswers |-> IF importedStats.correctAnswers > appStats.correctAnswers
                            THEN importedStats.correctAnswers ELSE appStats.correctAnswers,
         totalStudyTime |-> IF importedStats.totalStudyTime > appStats.totalStudyTime
                            THEN importedStats.totalStudyTime ELSE appStats.totalStudyTime,
         examRecords |-> appStats.examRecords \o SelectSeq(importedStats.examRecords, fresh)]

\* a merge of part_001 returns 0 at once when the bank is not an array
mergeInto(a, key, field) ==
    IF field.present /\ Has(a, key) THEN mergeQuestions(a[key], field.items) ELSE <<>>

\* importSyncData after the file has been read.  mergeStudyStats returns at
\* once when the store has no statistics; when the statistics have no
\* examRecords it throws after the scalars, and the import is rejected with
\* the banks and the scalars already merged.
importSyncDataResult(a, d) ==
    IF ~validateSyncData(d)
    THEN [status |-> "rejected", store |-> a, imported |-> Imported(0, 0, 0, FALSE),
          errors |-> <<>>, success |-> FALSE]
    ELSE LET pub == mergeInto(a, "publicQuestionBank", DataKey(d, "publicQuestions"))
             per == mergeInto(a, "personalQuestionBank", DataKey(d, "personalQuestions"))
             mis == mergeInto(a, "mistakeBank", DataKey(d, "mistakeBank"))
             sts == DataStats(d)
             merges == sts.present /\ Has(a, "studyStats")
             throws == merges /\ ~Has(a, "examRecords")
             merged == [a EXCEPT !.publicQuestionBank = @ \o pub,
                                 !.personalQuestionBank = @ \o per,
                                 !.mistakeBank = @ \o mis,
                                 !.studyStats =
                                     IF throws
                                     THEN [mergeStudyStatsByDate(@, sts.value) EXCEPT !.examRecords = <<>>]
                                     ELSE IF merges THEN mergeStudyStatsByDate(@, sts.value)
                                     ELSE @]
         IN  IF throws
             THEN [status |-> "rejected", store |-> merged,
                   imported |-> Imported(Len(pub), Len(per), Len(mis), FALSE),
                   errors |-> <<"studyStats">>, success |-> FALSE]
             ELSE [status |-> "ok", store |-> merged,
                   imported |-> Imported(Len(pub), Len(per), Len(mis), sts.present),
                   errors |-> <<>>, success |-> TRUE]

(* CrossDeviceSync (src/cross-device-sync.js) *)

legacyExportSyncDataDoc(a, dev, t) ==
    [exporter |-> "legacyExportSyncData", nested |-> FALSE, version |-> FALSE,
     deviceId |-> dev, exportTime |-> t,
     dataTypes |-> Absent,
     publicQuestions |-> IF Has(a, "publicQuestionBank")
                         THEN Present(a.publicQuestionBank) ELSE Absent,
     personalQuestions |-> IF Has(a, "personalQuestionBank")
                           THEN Present(a.personalQuestionBank) ELSE Absent,
     mistakeBank |-> IF Has(a, "mistakeBank") THEN Present(a.mistakeBank) ELSE Absent,
     studyStats |-> IF Has(a, "studyStats") THEN PresentStats(a.studyStats) ELSE AbsentStats,
     isSampleData |-> FALSE]

legacyMergePublicQuestions(currentQuestions, newQuestions) ==
    LET fresh(q) == q.id \notin Ids(currentQuestions)
    IN  SelectSeq(newQuestions, fresh)

\* importSyncData of the older script: no validation; a step on a bank that
\* window.app does not have throws, and the import is rejected with the steps
\* before it already applied
legacyImportSyncDataResult(a, d) ==
    LET pubIn == TopKey(d, "publicQuestions").items
        perIn == TopKey(d, "personalQuestions").items
        misIn == TopKey(d, "mistakeBank").items
        pubThrows == Len(pubIn) > 0 /\ ~Has(a, "publicQuestionBank")
        perThrows == Len(perIn) > 0 /\ ~Has(a, "personalQuestionBank")
        misThrows == Len(misIn) > 0 /\ ~Has(a, "mistakeBank")
        pub == IF pubThrows THEN <<>> ELSE legacyMergePublicQuestions(a.publicQuestionBank, pubIn)
        per == IF pubThrows \/ perThrows THEN <<>> ELSE perIn
        mis == IF pubThrows \/ perThrows \/ misThrows THEN <<>> ELSE misIn
        threw == pubThrows \/ perThrows \/ misThrows
    IN  [status |-> IF threw THEN "rejected" ELSE "ok",
         store |-> [a EXCEPT !.publicQuestionBank = @ \o pub,
                             !.personalQuestionBank = @ \o per,
                             !.mistakeBank = @ \o mis],
         imported |-> Imported(Len(pub), Len(per), Len(mis), FALSE),
         errors |-> <<>>, success |-> ~threw]

\* mergeUserData of the older script, applied to the data of a sync record:
\* mistakes are merged by id, exam records by date
legacyMergeUserDataResult(a, d) ==
    LET misF == TopKey(d, "mistakeBank")
        sts == TopStats(d)
        misThrows == misF.present /\ ~Has(a, "mistakeBank")
        fresh(m) == m.id \notin Ids(a.mistakeBank)
        mis == IF misF.present /\ ~misThrows THEN SelectSeq(misF.items, fresh) ELSE <<>>
        newDate(r) == r.date \notin Dates(a.studyStats.examRecords)
        stsThrows == /\ ~misThrows
                     /\ sts.present
                     /\ \/ ~Has(a, "studyStats")
                        \/ ~Has(a, "examRecords") /\ Len(sts.value.examRecords) > 0
        recs == IF sts.present /\ ~misThrows /\ ~stsThrows /\ Has(a, "examRecords")
                THEN SelectSeq(sts.value.examRecords, newDate) ELSE <<>>
    IN  [status |-> IF misThrows \/ stsThrows THEN "rejected" ELSE "ok",
         store |-> [a EXCEPT !.mistakeBank = @ \o mis,
                             !.studyStats.examRecords = @ \o recs],
         imported |-> Imported(0, 0, Len(mis), Len(recs) > 0),
         errors |-> <<>>, success |-> ~(misThrows \/ stsThrows)]

(* The devices' actions.  `imp` records the import served last: the store   *)
(* it found, the document it read, what it reported, and whether the import *)
(* before it, on the same device and by the same importer, read the same    *)
(* document and succeeded.                                                  *)

NoImport == [op |-> "none", device |-> NoId, status |-> "none", doc |-> NoSyncDoc,
             before |-> EmptyApp, imported |-> Imported(0, 0, 0, FALSE),
             errors |-> <<>>, success |-> FALSE, again |-> FALSE]

ImportServed(op, dev, r) ==
    [op |-> op, device |-> dev, status |-> r.status, doc |-> doc,
     before |-> app[dev], imported |-> r.imported,
     errors |-> r.errors, success |-> r.success,
     again |-> imp.op = op /\ imp.device = dev /\ imp.status = "ok" /\ imp.doc = doc]

WithinBanks(a) ==
    /\ Len(a.publicQuestionBank) <= MaxBankLen
    /\ Len(a.personalQuestionBank) <= MaxBankLen
    /\ Len(a.mistakeBank) <= MaxBankLen
    /\ Len(a.studyStats.examRecords) <= MaxBankLen

exportData(dev, o) ==
    /\ calls < MaxSyncCalls
    /\ calls' = calls + 1
    /\ doc' = exportDataDoc(app[dev], dev, o, now)
    /\ UNCHANGED <<app, imp, syncFrame, serviceVars, siteVars>>

exportSyncData(dev) ==
    /\ calls < MaxSyncCalls
    /\ calls' = calls + 1
    /\ doc' = exportSyncDataDoc(app[dev], dev, now)
    /\ UNCHANGED <<app, imp, syncFrame, serviceVars, siteVars>>

legacyExportSyncData(dev) ==
    /\ calls < MaxSyncCalls
    /\ calls' = calls + 1
    /\ doc' = legacyExportSyncDataDoc(app[dev], dev, now)
    /\ UNCHANGED <<app, imp, syncFrame, serviceVars, siteVars>>

importData(dev) ==
    /\ calls < MaxSyncCalls
    /\ calls' = calls + 1
    /\ doc # NoSyncDoc
    /\ LET r == importDataResult(app[dev], doc, now)
       IN  /\ WithinBanks(r.store)
           /\ app' = [app EXCEPT ![dev] = r.store]
           /\ imp' = ImportServed("importData", dev, r)
    /\ UNCHANGED <<doc, syncFrame, serviceVars, siteVars>>

importSyncData(dev) ==
    /\ calls < MaxSyncCalls
    /\ calls' = calls + 1
    /\ doc # NoSyncDoc
    /\ LET r == importSyncDataResult(app[dev], doc)
       IN  /\ WithinBanks(r.store)
           /\ app' = [app EXCEPT ![dev] = r.store]
           /\ imp' = ImportServed("importSyncData", dev, r)
    /\ UNCHANGED <<doc, syncFrame, serviceVars, siteVars>>

legacyMergeUserData(dev) ==
    /\ calls < MaxSyncCalls
    /\ calls' = calls + 1
    /\ doc # NoSyncDoc
    /\ LET r == legacyMergeUserDataResult(app[dev], doc)
       IN  /\ WithinBanks(r.store)
           /\ app' = [app EXCEPT ![dev] = r.store]
           /\ imp' = ImportServed("legacyMergeUserData", dev, r)
    /\ UNCHANGED <<doc, syncFrame, serviceVars, siteVars>>

legacyImportSyncData(dev) ==
    /\ calls < MaxSyncCalls
    /\ calls' = calls + 1
    /\ doc # NoSyncDoc
    /\ LET r == legacyImportSyncDataResult(app[dev], doc)
       IN  /\ WithinBanks(r.store)
           /\ app' = [app EXCEPT ![dev] = r.store]
           /\ imp' = ImportServed("legacyImportSyncData", dev, r)
    /\ UNCHANGED <<doc, syncFrame, serviceVars, siteVars>>

\* the stores a device may hold when the scripts are loaded
PublicBanks == {<<>>, <<Question("q1", "a")>>, <<Question("q1", "a"), Question("q2", "a")>>}
PersonalBanks == {<<>>, <<Question("p1", "a")>>}
MistakeBanks == {<<>>, <<Question("q1", "a")>>}
StudyStats ==
    {ZeroStats,
     [totalQuestions |-> 2, correctAnswers |-> 1, totalStudyTime |-> 3,
      examRecords |-> <<ExamRecord("e1", 1)>>],
     [totalQuestions |-> 1, correctAnswers |-> 2, totalStudyTime |-> 1,
      examRecords |-> <<ExamRecord(NoId, 1), ExamRecord(NoId, 2)>>]}
OtherApp == [EmptyApp EXCEPT !.publicQuestionBank = <<Question("q1", "b")>>,
                             !.personalQuestionBank = <<Question("p1", "b")>>,
                             !.studyStats = [totalQuestions |-> 3, correctAnswers |-> 1,
                                             totalStudyTime |-> 2,
                                             examRecords |-> <<ExamRecord("e2", 1)>>]]

----------------------------------------------------------------------------
(* The sync managers, the database module and the exam collection as they   *)
(* are constructed.  A manager's calls are kept in arrival order; of each   *)
(* call the model keeps the await it is suspended at (pc), whether an       *)
(* earlier call was still in flight when it arrived (busy), and the number  *)
(* of sync steps it has executed (steps).  Of the CloudSyncManager the      *)
(* model also keeps the number of pending changes an autoSync call handed   *)
(* to the uploadChanges it awaits (sent), the number of changes removed     *)
(* from the pending list that no upload had been handed (lost), and whether *)
(* an offline event has stopped the timer with no startAutoSync since       *)
(* (stopped).                                                               *)

\* new CloudSyncManager().init(): the timer is started when the browser is online
CloudSyncManager(onLine) ==
    [isOnline |-> onLine, syncStatus |-> "idle", lastSyncTime |-> NoDate,
     syncVersion |-> 0, pendingChanges |-> 0, syncInterval |-> onLine,
     calls |-> <<>>, stopped |-> FALSE, lost |-> 0]

\* new CrossDeviceSync(); onLine is what navigator.onLine returns
CrossDeviceSync(onLine) ==
    [onLine |-> onLine, isSyncing |-> FALSE, syncTimer |-> FALSE, calls |-> <<>>]

\* the module-level state of src/config/db.js when it has been loaded, with
\* the process around it: the clock in milliseconds, the pending setTimeout
\* callbacks in the order they were set, the mongoose.connect calls awaited,
\* the listener sets registered on the connection, and whether process.exit
\* has been called.  History: scheduled counts the reconnects scheduled since
\* the last successful connection, failure describes the last call of
\* handleConnectionError.
DbModule ==
    [isConnected |-> FALSE, connectionRetryCount |-> 0,
     clock |-> 0, timers |-> <<>>, connecting |-> 0, listeners |-> 0,
     external |-> 0, restored |-> 0, exited |-> FALSE,
     scheduled |-> 0, failure |-> [count |-> -1, exited |-> FALSE]]

NoExam == [user |-> "none"]
ExamIds == 1..MaxExams

\* the studyStats of a new UserData document: the schema's defaults
NewStudyStats ==
    [totalQuestions |-> 0, correctAnswers |-> 0, totalStudyTime |-> 0,
     correctRate |-> 0, examRecords |-> <<>>]

\* the security paths of a new User document, with the clock of the login
\* route in milliseconds.  History: logins counts the calls of POST /login,
\* wrong the wrong-password responses since the last successful login, and
\* last describes the call served last: its response code, the time, and
\* the paths as they were stored when it arrived.
Account ==
    [loginAttempts |-> 0, lockedUntil |-> NoDate, clock |-> 0,
     logins |-> 0, wrong |-> 0,
     last |-> [code |-> "none", at |-> 0, loginAttempts |-> 0, lockedUntil |-> NoDate]]

Paths == {"/index.html", "/app.js", "/style.css"}

\* new FileServer(), with the clock of the server in milliseconds.  The
\* cache is the Map as the sequence of its entries in insertion order.
\* History: evicted lists the timestamps of the entries the last addToCache
\* removed, in the order it removed them, and kept the timestamps of the
\* entries it left in place.
FileServer ==
    [cache |-> <<>>, cacheSize |-> 0, clock |-> 0, evicted |-> <<>>, kept |-> {}]

SiteIdle ==
    /\ stats = NewStudyStats
    /\ account = Account
    /\ server = FileServer

ServicesIdle ==
    /\ cloud = CloudSyncManager(FALSE)
    /\ cross = CrossDeviceSync(FALSE)
    /\ conn = DbModule
    /\ exams = [i \in ExamIds |-> NoExam]
    /\ SiteIdle

----------------------------------------------------------------------------
(* The state at start.  The mistake collection is empty or holds one record *)
(* of user u1 with a past; the devices' stores are drawn from the families  *)
(* above.                                                                   *)

SyncIdle ==
    /\ app = [d \in Devices |-> EmptyApp]
    /\ doc = NoSyncDoc
    /\ imp = NoImport

MistakesIdle ==
    /\ now = 0
    /\ calls = 0
    /\ result = [Res("none", "ok", 0, "none") EXCEPT !.at = 0]
    /\ req = [p \in Procs |-> Idle]
    /\ race = NoRace
    /\ db = [i \in MistakeIds |-> NoDoc]
    /\ nextId = 1
    /\ run = [i \in MistakeIds |-> NoRun]

InitSync ==
    /\ MistakesIdle
    /\ ServicesIdle
    /\ doc = NoSyncDoc
    /\ imp = NoImport
    /\ \E pub \in PublicBanks, per \in PersonalBanks, mis \in MistakeBanks,
          sts \in StudyStats, other \in {EmptyApp, OtherApp} :
          app = [d \in Devices |->
                   IF d = "A" THEN [EmptyApp EXCEPT !.publicQuestionBank = pub,
                                                   !.personalQuestionBank = per,
                                                   !.mistakeBank = mis,
                                                   !.studyStats = sts]
                   ELSE other]

InitMistakes ==
    /\ now = 0
    /\ calls = 0
    /\ result = [Res("none", "ok", 0, "none") EXCEPT !.at = 0]
    /\ req = [p \in Procs |-> Idle]
    /\ race = NoRace
    /\ \/ /\ db = [i \in MistakeIds |-> NoDoc]
          /\ nextId = 1
          /\ run = [i \in MistakeIds |-> NoRun]
       \/ \E h \in Histories :
          /\ db = [i \in MistakeIds |-> IF i = 1 THEN Seed(h[1], h[2], h[3]) ELSE NoDoc]
          /\ nextId = 2
          /\ run = [i \in MistakeIds |-> IF i = 1 THEN SeedRun(h[1], h[2], h[3]) ELSE NoRun]

Init == InitMistakes /\ SyncIdle /\ ServicesIdle

\* the ids a request names: those the store has handed out, and the first
\* one it has not (every id that was never handed out is looked up alike)
RequestIds == {i \in MistakeIds : i <= nextId}

Next ==
    \/ \E u \in Users, q \in Questions, i \in ImportanceInputs : createMistakeRecord(u, q, i)
    \/ \E id \in RequestIds, u \in Users, c \in BOOLEAN : recordReview(id, u, c)
    \/ \E id \in RequestIds, u \in Users, i \in {2, 6} : updateMistake(id, u, i)
    \/ \E id \in RequestIds, u \in Users : deleteMistake(id, u)
    \/ \E id \in RequestIds, u \in Users : archiveMistake(id, u)
    \/ \E id \in RequestIds, u \in Users : getMistakeById(id, u)
    \/ \E u \in Users, n \in 1..MaxLimit : getDueForReview(u, n)
    \/ \E u \in Users, n \in 1..MaxLimit : getRecommendedForReview(u, n)
    \/ Tick

Spec == Init /\ [][Next]_vars

----------------------------------------------------------------------------
(* Concurrent server: recordReview awaits findOne and save, and the calls   *)
(* of two requests interleave at those two points.  The store applies each  *)
(* read and each update atomically.                                         *)

\* const mistake = await this.findOne({ _id: mistakeId, user: userId })
reviewFind(p, id, u, isCorrect) ==
    /\ calls < MaxCalls
    /\ req[p].pc = "idle"
    /\ IF ~FindOwned(id, u)
       THEN /\ result' = [Res("recordReview", "notfound", id, u) EXCEPT !.isCorrect = isCorrect]
            /\ UNCHANGED req
       ELSE /\ req' = [req EXCEPT ![p] = [pc |-> "loaded", id |-> id, user |-> u,
                                          isCorrect |-> isCorrect, loaded |-> db[id],
                                          overlapped |-> FALSE]]
            /\ UNCHANGED result
    /\ calls' = calls + 1
    /\ UNCHANGED <<db, nextId, now, run, race, syncVars, serviceVars, siteVars>>

\* the changes made in memory, then await mistake.save()
reviewSave(p) ==
    /\ req[p].pc = "loaded"
    /\ LET id == req[p].id
           mem == ApplyReview(req[p].loaded, req[p].isCorrect, now)
           out == PreSave(mem, now)
       IN  IF db[id] # NoDoc /\ Validate(mem)
           THEN /\ db' = [db EXCEPT ![id] = SaveDoc(db[id], req[p].loaded, out)]
                /\ result' = [Res("recordReview", "ok", id, req[p].user) EXCEPT
                                 !.isCorrect = req[p].isCorrect, !.before = req[p].loaded]
                /\ race' = IF req[p].overlapped
                           THEN [id |-> id, last |-> p, status |-> "ok", computed |-> out,
                                 loaded |-> req[p].loaded, stored |-> db[id]]
                           ELSE NoRace
                /\ req' = [q \in Procs |->
                             IF q = p THEN Idle
                             ELSE IF req[q].pc = "loaded" /\ req[q].id = id
                                  THEN [req[q] EXCEPT !.overlapped = TRUE]
                                  ELSE req[q]]
           ELSE /\ result' = [Res("recordReview", "error", id, req[p].user) EXCEPT
                                 !.isCorrect = req[p].isCorrect]
                /\ race' = IF req[p].overlapped
                           THEN [id |-> id, last |-> p, status |-> "error", computed |-> out,
                                 loaded |-> req[p].loaded, stored |-> db[id]]
                           ELSE NoRace
                /\ req' = [req EXCEPT ![p] = Idle]
                /\ UNCHANGED db
    /\ UNCHANGED <<nextId, now, calls, run, syncVars, serviceVars, siteVars>>

NextConc ==
    \/ \E p \in Procs, id \in RequestIds, u \in Users, c \in BOOLEAN : reviewFind(p, id, u, c)
    \/ \E p \in Procs : reviewSave(p)
    \/ Tick

SpecConc == Init /\ [][NextConc]_vars

----------------------------------------------------------------------------
(* The devices: exports and imports in any order *)

NextSync ==
    \/ \E dev \in Devices, o \in ExportOptions : exportData(dev, o)
    \/ \E dev \in Devices : exportSyncData(dev)
    \/ \E dev \in Devices : legacyExportSyncData(dev)
    \/ \E dev \in Devices : importData(dev)
    \/ \E dev \in Devices : importSyncData(dev)
    \/ \E dev \in Devices : legacyImportSyncData(dev)

SpecSync == InitSync /\ [][NextSync]_vars

----------------------------------------------------------------------------
(* Imports of files that did not come from an exporter of this program: a   *)
(* device holding one of a few stores is handed one of a family of          *)
(* documents and runs importers on it.                                      *)

LocalStats == [totalQuestions |-> 2, correctAnswers |-> 1, totalStudyTime |-> 3,
               examRecords |-> <<ExamRecord("e1", 1)>>]

LocalApp == [EmptyApp EXCEPT !.publicQuestionBank = <<Question("q1", "a")>>,
                             !.personalQuestionBank = <<Question("p1", "a")>>,
                             !.mistakeBank = <<Question("m1", "a")>>,
                             !.studyStats = LocalStats]

\* the stores of the importing device; the last three lack a property
LocalStores ==
    {EmptyApp,
     LocalApp,
     [LocalApp EXCEPT !.studyStats.examRecords = <<ExamRecord(NoId, 1)>>],
     [LocalApp EXCEPT !.personalQuestionBank = <<>>, !.missing = {"personalQuestionBank"}],
     [LocalApp EXCEPT !.studyStats.examRecords = <<>>, !.missing = {"examRecords"}],
     [LocalApp EXCEPT !.studyStats = ZeroStats, !.missing = {"studyStats", "examRecords"}]}

FileDoc(version, deviceId, exportTime, dataTypes, nested, pub, per, mis, sts) ==
    [exporter |-> "file", nested |-> nested, version |-> version,
     deviceId |-> deviceId, exportTime |-> exportTime, dataTypes |-> dataTypes,
     publicQuestions |-> pub, personalQuestions |-> per, mistakeBank |-> mis,
     studyStats |-> sts, isSampleData |-> FALSE]

AllDataTypes == <<"publicQuestions", "personalQuestions", "mistakeBank", "studyStats">>

FileDataTypes ==
    {Absent, Present(<<>>), Present(<<"publicQuestions">>), Present(<<"answers">>),
     Present(AllDataTypes)}

FilePublic ==
    {Absent, Present(<<>>),
     Present(<<Question("q1", "b"), Question("q2", "b"), Question("q3", "b")>>),
     Present(<<Question("q4", "b"), Question("q4", "c")>>)}
FilePersonal == {Absent, Present(<<Question("p1", "b"), Question("p2", "b")>>)}
FileMistakes == {Absent, Present(<<Question("m1", "b"), Question("m2", "b")>>)}
FileStats ==
    {AbsentStats,
     PresentStats([totalQuestions |-> 1, correctAnswers |-> 2, totalStudyTime |-> 3,
                   examRecords |-> <<ExamRecord("e1", 2), ExamRecord("e2", 1)>>]),
     PresentStats([totalQuestions |-> 3, correctAnswers |-> 0, totalStudyTime |-> 1,
                   examRecords |-> <<ExamRecord(NoId, 2)>>])}

\* documents that differ in their header, and documents with a complete
\* header that differ in what they carry, at the top level or under `data`
Documents ==
    {FileDoc(v, dv, t, ty, FALSE,
             Present(<<Question("q1", "b"), Question("q2", "b"), Question("q3", "b")>>),
             Absent, Absent, AbsentStats) :
        v \in BOOLEAN, dv \in {"C", NoId}, t \in {0, NoDate}, ty \in FileDataTypes}
    \cup {FileDoc(TRUE, "C", 0, IF n THEN Absent ELSE Present(AllDataTypes), n, pub, per, mis, sts) :
             n \in BOOLEAN, pub \in FilePublic, per \in FilePersonal,
             mis \in FileMistakes, sts \in FileStats}

ImportDevices == {"A"}

InitImport ==
    /\ MistakesIdle
    /\ ServicesIdle
    /\ imp = NoImport
    /\ doc \in Documents
    /\ \E a \in LocalStores : app = [d \in Devices |-> IF d \in ImportDevices THEN a ELSE EmptyApp]

NextImport ==
    \/ \E dev \in ImportDevices : importData(dev)
    \/ \E dev \in ImportDevices : importSyncData(dev)
    \/ \E dev \in ImportDevices : legacyImportSyncData(dev)
    \/ \E dev \in ImportDevices : legacyMergeUserData(dev)

SpecImport == InitImport /\ [][NextImport]_vars

----------------------------------------------------------------------------
(* Properties of the review scheduler *)

ReviewServed == result.op = "recordReview" /\ result.status = "ok"

\* C1: a record whose streak of correct reviews began with consecutiveCorrect
\* = 0 at masteryLevel m0 has, after n such reviews with n a multiple of 3,
\* masteryLevel min(5, m0 + n/3), and it is archived once that level is 5.
MasteryAfterStreak ==
    \A i \in MistakeIds :
        (db[i] # NoDoc /\ run[i].n % 3 = 0) =>
            /\ db[i].masteryLevel = Min(5, run[i].m0 + (run[i].n \div 3))
            /\ (db[i].masteryLevel = 5 => db[i].isArchived)

\* C1 witness: the twelfth correct review in a row of a record that began at
\* level 1 has just been served and left it archived at level 5.
MasteryAfterStreakReached ==
    /\ ReviewServed /\ result.isCorrect
    /\ run[result.id] = [m0 |-> 1, n |-> 12]
    /\ result.before.masteryLevel = 4
    /\ db[result.id].masteryLevel = 5
    /\ db[result.id].isArchived

\* C2: after a recordReview with isCorrect = false the stored record has
\* consecutiveCorrect = 0 and nextReviewDate equal to the time of the call.
IncorrectReviewResets ==
    (ReviewServed /\ ~result.isCorrect) =>
        /\ db[result.id].consecutiveCorrect = 0
        /\ db[result.id].nextReviewDate = result.at

\* C2 witness: an incorrect review was served for a record that had a streak
\* and a later review date.
IncorrectReviewResetsReached ==
    /\ ReviewServed /\ ~result.isCorrect
    /\ result.before.consecutiveCorrect = 2
    /\ result.before.nextReviewDate > result.at

ThirdCorrectCase ==
    /\ ReviewServed /\ result.isCorrect
    /\ result.before.masteryLevel = 1
    /\ result.before.consecutiveCorrect = 2

\* C3 as stated: from masteryLevel 1 and consecutiveCorrect 2 one correct
\* review gives masteryLevel 2, consecutiveCorrect 0 and nextReviewDate = now
\* + 1 day.
ThirdCorrectSchedulesOneDay ==
    ThirdCorrectCase =>
        /\ db[result.id].masteryLevel = 2
        /\ db[result.id].consecutiveCorrect = 0
        /\ db[result.id].nextReviewDate = result.at + 1

\* C3 amended: from masteryLevel 1 and consecutiveCorrect 2 one correct review
\* gives masteryLevel 2, consecutiveCorrect 0 and nextReviewDate = now + 4
\* days (interval table index 2, the streak of 3 before it is reset).
ThirdCorrectSchedulesFourDays ==
    ThirdCorrectCase =>
        /\ db[result.id].masteryLevel = 2
        /\ db[result.id].consecutiveCorrect = 0
        /\ db[result.id].nextReviewDate = result.at + 4

\* C3 witness: the third correct review of a level-1 record has been served.
ThirdCorrectReached == ThirdCorrectCase /\ db[result.id].reviewCount = 3

\* C4: every stored masteryLevel is within 1..5; a correct review leaves it
\* or raises it by one, never above 5; an incorrect review lowers it by
\* exactly 1 unless it is already 1.
MasteryWithinRange ==
    /\ \A i \in MistakeIds : db[i] # NoDoc => db[i].masteryLevel \in 1..5
    /\ ReviewServed =>
          LET m == result.before.masteryLevel
          IN  IF result.isCorrect
              THEN db[result.id].masteryLevel \in {m, Min(5, m + 1)}
              ELSE db[result.id].masteryLevel = (IF m = 1 THEN 1 ELSE m - 1)

\* C4 witness: a correct review completed a streak of 3 on a record already
\* at level 5, and the level stayed 5.
MasteryWithinRangeReached ==
    /\ ReviewServed /\ result.isCorrect
    /\ result.before.masteryLevel = 5
    /\ result.before.consecutiveCorrect = 2
    /\ db[result.id].masteryLevel = 5
    /\ db[result.id].consecutiveCorrect = 0

Range(s) == {s[k] : k \in 1..Len(s)}

\* C5: a stored record at masteryLevel 5 is archived with reviewStatus
\* 'mastered', and no archived record is returned by getDueForReview or
\* getRecommendedForReview.
MasteredIsArchived ==
    /\ \A i \in MistakeIds :
          (db[i] # NoDoc /\ db[i].masteryLevel = 5) =>
              (db[i].isArchived /\ db[i].reviewStatus = "mastered")
    /\ result.op \in {"getDueForReview", "getRecommendedForReview"} =>
          \A i \in Range(result.returned) : ~db[i].isArchived

\* C5 witness: getRecommendedForReview was served to a user who owns a
\* record at level 5, archived and 'mastered', and an active record; with
\* room for both, it returned the active one alone.
MasteredIsArchivedReached ==
    /\ result.op = "getRecommendedForReview"
    /\ result.limit >= 2
    /\ Len(result.returned) = 1
    /\ \E i \in MistakeIds :
          /\ db[i] # NoDoc /\ db[i].user = result.user
          /\ db[i].masteryLevel = 5 /\ db[i].isArchived
          /\ db[i].reviewStatus = "mastered"

\* the score C6 states, doubled: the overdue bonus is counted
ClaimedScore2(d, t) ==
    2 * (d.importance * 20) + 2 * ((6 - d.masteryLevel) * 15)
    + 2 * (IF d.nextReviewDate < t THEN 50 ELSE 0) + d.errorRate

\* C6 as stated: getRecommendedForReview returns the first `count` of the
\* user's non-archived records in descending order of importance*20 +
\* (6 - masteryLevel)*15 + (50 if overdue) + errorRate*0.5.
RecommendedRanksOverdue ==
    result.op = "getRecommendedForReview" =>
        LET M == RecommendedMatch(result.user)
            r == result.returned
        IN  /\ Len(r) = Min(result.limit, Cardinality(M))
            /\ Range(r) \subseteq M
            /\ \A j, k \in 1..Len(r) :
                  j < k => ClaimedScore2(db[r[j]], result.at) >= ClaimedScore2(db[r[k]], result.at)
            /\ \A i \in M \ Range(r) : \A k \in 1..Len(r) :
                  ClaimedScore2(db[r[k]], result.at) >= ClaimedScore2(db[i], result.at)

FiveOps == {"recordReview", "updateMistake", "deleteMistake", "archiveMistake", "getMistakeById"}

\* C7: recordReview, updateMistake, deleteMistake, archiveMistake and
\* getMistakeById called with an id that matches no record of the calling
\* user end with a not-found error and change no stored record.
NotFoundLeavesStore ==
    [][(/\ calls' = calls + 1
        /\ result'.op \in FiveOps
        /\ (db[result'.id] = NoDoc \/ db[result'.id].user # result'.user))
       => (result'.status = "notfound" /\ db' = db)]_vars

\* C7 witness: archiveMistake was refused for a record another user owns.
NotFoundLeavesStoreReached ==
    /\ result.op = "archiveMistake" /\ result.status = "notfound"
    /\ db[result.id] # NoDoc /\ db[result.id].user # result.user
    /\ ~db[result.id].isArchived

----------------------------------------------------------------------------
(* Properties of overlapping reviews *)

RaceFields == {"reviewCount", "consecutiveCorrect", "masteryLevel",
               "totalAttempts", "correctAttempts"}

\* C8 as stated: when two recordReview calls on one record both read before
\* either saves, both complete and the stored counters are those the call
\* that saved last computed from its own read.
LastSaverWins ==
    race # NoRace =>
        /\ race.status = "ok"
        /\ \A f \in RaceFields : db[race.id][f] = race.computed[f]

\* C8 amended: both calls complete without error; reviewCount and
\* totalAttempts are those the last saver computed; consecutiveCorrect,
\* masteryLevel and correctAttempts are the last saver's where that call
\* changed them relative to its own read and otherwise keep what the earlier
\* save stored.
LastSaverWinsPerField ==
    race # NoRace =>
        /\ race.status = "ok"
        /\ db[race.id].reviewCount = race.computed.reviewCount
        /\ db[race.id].totalAttempts = race.computed.totalAttempts
        /\ \A f \in RaceFields :
              db[race.id][f] = (IF race.computed[f] # race.loaded[f]
                                THEN race.computed[f] ELSE race.stored[f])

\* C8 witness: the second of two overlapping reviews has saved, and the
\* earlier save had changed a counter the second one left as it read it.
LastSaverWinsReached ==
    /\ race # NoRace
    /\ race.status = "ok"
    /\ \E f \in RaceFields :
          /\ race.computed[f] = race.loaded[f]
          /\ race.stored[f] # race.loaded[f]

----------------------------------------------------------------------------
(* Properties of export and import *)

IsEmptyStore(a) ==
    /\ a.publicQuestionBank = <<>>
    /\ a.personalQuestionBank = <<>>
    /\ a.mistakeBank = <<>>
    /\ a.studyStats = ZeroStats

\* what a document carries: an absent key carries nothing
DocContents(d) == [publicQuestions |-> d.publicQuestions.items,
                   personalQuestions |-> d.personalQuestions.items,
                   mistakeBank |-> d.mistakeBank.items,
                   studyStats |-> d.studyStats.value]

RoundTripCase ==
    /\ imp.op = "importData"
    /\ imp.doc.exporter = "exportData"
    /\ IsEmptyStore(imp.before)

\* C9: a document written by SyncManager.exportData and read by
\* SyncManager.importData into an empty store is accepted, and leaves the
\* store's public questions, personal questions, mistake bank and study
\* statistics equal to the document's.
RoundTripRestores ==
    RoundTripCase =>
        /\ imp.status = "ok"
        /\ Contents(app[imp.device]) = DocContents(imp.doc)

\* C9 witness: the round trip of a store's own data (no sample data) with
\* two public questions, a personal question, a mistake, non-zero scalar
\* statistics and an exam record.
RoundTripRestoresReached ==
    /\ RoundTripCase
    /\ imp.status = "ok"
    /\ ~imp.doc.isSampleData
    /\ Len(imp.doc.publicQuestions.items) >= 2
    /\ Len(imp.doc.personalQuestions.items) >= 1
    /\ Len(imp.doc.mistakeBank.items) >= 1
    /\ imp.doc.studyStats.present
    /\ imp.doc.studyStats.value.totalStudyTime > 0
    /\ Len(imp.doc.studyStats.value.examRecords) >= 1

\* C10 as stated: an import that reads the document the import before it
\* read, on the same device and by the same importer, leaves the banks, the
\* exam records and the scalar statistics as it found them.
ImportTwiceAddsNothing ==
    imp.again => Contents(app[imp.device]) = Contents(imp.before)

----------------------------------------------------------------------------
(* Properties of imports of arbitrary documents *)

HeaderComplete(d) == d.version /\ d.deviceId # NoId /\ d.exportTime # NoDate

\* C11 as stated: importData rejects a document without version, deviceId or
\* exportTime, and one without a non-empty dataTypes list of valid names, and
\* a rejection leaves the store as it was.
ImportRejectsIncomplete ==
    imp.op = "importData" =>
        /\ (\/ ~HeaderComplete(imp.doc)
            \/ ~imp.doc.dataTypes.present
            \/ Len(imp.doc.dataTypes.items) = 0
            \/ \E k \in 1..Len(imp.doc.dataTypes.items) :
                  imp.doc.dataTypes.items[k] \notin validDataTypes)
           => imp.status = "rejected"
        /\ imp.status = "rejected" => app[imp.device] = imp.before

\* C11 amended: importData rejects exactly the documents without version,
\* deviceId or exportTime and those whose dataTypes is present but empty or
\* names a type outside the four valid ones; a document with no dataTypes at
\* all is accepted.  A rejection leaves the banks, the statistics, syncStatus
\* and lastSyncTime as they were.
ImportRejectsInvalid ==
    imp.op = "importData" =>
        /\ imp.status = "rejected" <=>
              \/ ~HeaderComplete(imp.doc)
              \/ /\ imp.doc.dataTypes.present
                 /\ \/ Len(imp.doc.dataTypes.items) = 0
                    \/ \E k \in 1..Len(imp.doc.dataTypes.items) :
                          imp.doc.dataTypes.items[k] \notin validDataTypes
        /\ imp.status = "rejected" => app[imp.device] = imp.before

\* C11 witness: importData has rejected a document with a complete header
\* and an empty dataTypes list that carried questions the store did not have.
ImportRejectsInvalidReached ==
    /\ imp.op = "importData"
    /\ imp.status = "rejected"
    /\ HeaderComplete(imp.doc)
    /\ imp.doc.dataTypes = Present(<<>>)
    /\ imp.before.publicQuestionBank # <<>>
    /\ \E k \in 1..Len(imp.doc.publicQuestions.items) :
          imp.doc.publicQuestions.items[k].id \notin Ids(imp.before.publicQuestionBank)

Collections ==
    {[bank |-> "publicQuestionBank", key |-> "publicQuestions", count |-> "publicQuestions"],
     [bank |-> "personalQuestionBank", key |-> "personalQuestions", count |-> "personalQuestions"],
     [bank |-> "mistakeBank", key |-> "mistakeBank", count |-> "mistakes"]}

\* what the import served last read for a collection: importData reads the
\* top level of the document, importSyncData of part_001 reads under `data`
Incoming(key) ==
    IF imp.op = "importSyncData" THEN DataKey(imp.doc, key).items
    ELSE TopKey(imp.doc, key).items

NotHeld(items, held) ==
    LET new(item) == \A k \in 1..Len(held) : held[k].id # item.id
    IN  SelectSeq(items, new)

\* C12: an import by SyncManager.importData or by importSyncData of part_001
\* that completes appends to each collection the store holds exactly the
\* incoming items whose id no local item had, in their order, and reports
\* their number.
ImportAppendsNew ==
    (imp.op \in {"importData", "importSyncData"} /\ imp.status = "ok") =>
        \A c \in Collections :
            Has(imp.before, c.bank) =>
                /\ app[imp.device][c.bank]
                     = imp.before[c.bank] \o NotHeld(Incoming(c.key), imp.before[c.bank])
                /\ imp.imported[c.count]
                     = Len(NotHeld(Incoming(c.key), imp.before[c.bank]))

\* C12 witness: importData read three public questions into a store that
\* held one of their ids, added two and reported two.
ImportAppendsNewReached ==
    /\ imp.op = "importData" /\ imp.status = "ok"
    /\ Len(Incoming("publicQuestions")) = 3
    /\ Len(imp.before.publicQuestionBank) = 1
    /\ imp.before.publicQuestionBank[1].id \in Ids(Incoming("publicQuestions"))
    /\ imp.imported.publicQuestions = 2
    /\ Len(app[imp.device].publicQuestionBank) = 3

IsPrefix(s, t) == Len(s) <= Len(t) /\ SubSeq(t, 1, Len(s)) = s

\* C13: whatever importer or merge ran last, every question, mistake and exam
\* record the store held before is still there, unchanged and in the same
\* order, ahead of what was appended.
MergeKeepsLocal ==
    imp.op # "none" =>
        /\ \A c \in Collections : IsPrefix(imp.before[c.bank], app[imp.device][c.bank])
        /\ IsPrefix(imp.before.studyStats.examRecords, app[imp.device].studyStats.examRecords)

\* C13 witness: importData read a document carrying another version of a
\* question the store held and an exam record with the id of a local one;
\* it appended new items and records and kept the local copies.
MergeKeepsLocalReached ==
    /\ imp.op = "importData" /\ imp.status = "ok"
    /\ imp.before.publicQuestionBank = <<Question("q1", "a")>>
    /\ \E k \in 1..Len(Incoming("publicQuestions")) :
          Incoming("publicQuestions")[k] = Question("q1", "b")
    /\ Len(app[imp.device].publicQuestionBank) > 1
    /\ app[imp.device].publicQuestionBank[1] = Question("q1", "a")
    /\ imp.before.studyStats.examRecords = <<ExamRecord("e1", 1)>>
    /\ Len(app[imp.device].studyStats.examRecords) > 1
    /\ app[imp.device].studyStats.examRecords[1] = ExamRecord("e1", 1)

DistinctIds(items) == \A j, k \in 1..Len(items) : j # k => items[j].id # items[k].id

\* C14 as stated: the stores start with pairwise distinct ids in every
\* collection, and after any sequence of imports no collection holds two
\* records with the same id.
ImportsNeverDuplicate ==
    \A dev \in Devices : \A c \in Collections : DistinctIds(app[dev][c.bank])

Scalars == {"totalQuestions", "correctAnswers", "totalStudyTime"}

\* the statistics the import served last read from its document
IncomingStats ==
    IF imp.op = "importSyncData" THEN DataStats(imp.doc) ELSE TopStats(imp.doc)

\* C15: after an import by SyncManager.importData or by importSyncData of
\* part_001 has merged statistics, each of totalQuestions, correctAnswers and
\* totalStudyTime is the larger of its value before and the incoming value.
ScalarsTakeMaximum ==
    (/\ imp.op \in {"importData", "importSyncData"}
     /\ imp.status = "ok"
     /\ IncomingStats.present
     /\ Has(imp.before, "studyStats")) =>
        \A f \in Scalars :
            app[imp.device].studyStats[f]
              = Max(imp.before.studyStats[f], IncomingStats.value[f])

\* C15 witness: importSyncData of part_001 merged statistics of which one
\* scalar was below the local value and was not taken, and one was above it.
ScalarsTakeMaximumReached ==
    /\ imp.op = "importSyncData" /\ imp.status = "ok"
    /\ IncomingStats.present
    /\ IncomingStats.value.totalQuestions < imp.before.studyStats.totalQuestions
    /\ app[imp.device].studyStats.totalQuestions = imp.before.studyStats.totalQuestions
    /\ IncomingStats.value.correctAnswers > imp.before.studyStats.correctAnswers
    /\ app[imp.device].studyStats.correctAnswers = IncomingStats.value.correctAnswers

\* C16 as stated: a merge of exam records appends an incoming record exactly
\* when no local record has its date, whatever the ids are.
ExamRecordsMergedByDate ==
    (/\ imp.op \in {"importData", "importSyncData", "legacyMergeUserData"}
     /\ imp.status = "ok"
     /\ IncomingStats.present
     /\ Has(imp.before, "examRecords")) =>
        LET local == imp.before.studyStats.examRecords
            newDate(r) == \A k \in 1..Len(local) : local[k].date # r.date
        IN  app[imp.device].studyStats.examRecords
              = local \o SelectSeq(IncomingStats.value.examRecords, newDate)

\* C17: when importData has accepted a document, the errors it returns name
\* exactly the data types whose step threw (a collection the document carries
\* and the store lacks; statistics the store holds without examRecords),
\* every other collection is merged as if nothing had failed, and success is
\* false exactly when an error was returned.
FailureKeepsOthers ==
    (imp.op = "importData" /\ imp.status = "ok") =>
        /\ \A c \in Collections :
              /\ (\E k \in 1..Len(imp.errors) : imp.errors[k] = c.key)
                    <=> (TopKey(imp.doc, c.key).present /\ ~Has(imp.before, c.bank))
              /\ Has(imp.before, c.bank) =>
                    app[imp.device][c.bank]
                      = imp.before[c.bank] \o NotHeld(Incoming(c.key), imp.before[c.bank])
        /\ (\E k \in 1..Len(imp.errors) : imp.errors[k] = "studyStats")
              <=> /\ TopStats(imp.doc).present
                  /\ Has(imp.before, "studyStats")
                  /\ ~Has(imp.before, "examRecords")
        /\ imp.success <=> imp.errors = <<>>

\* C17 witness: importData failed on the personal questions alone, reported
\* that one error with success false, and added public questions and mistakes.
FailureKeepsOthersReached ==
    /\ imp.op = "importData" /\ imp.status = "ok"
    /\ imp.errors = <<"personalQuestions">>
    /\ ~imp.success
    /\ imp.imported.publicQuestions > 0
    /\ imp.imported.mistakes > 0
    /\ Len(app[imp.device].mistakeBank) > Len(imp.before.mistakeBank)

----------------------------------------------------------------------------
(* The sync managers' entry points.  JavaScript runs one callback at a     *)
(* time, so a callback is one step up to its first await and each          *)
(* continuation of an async function is one step up to the next await.     *)

MaxArrivals == 3
MaxPending == 2

\* the calls that have passed the guard and have not finished
InFlight(callSeq) == {i \in 1..Len(callSeq) : callSeq[i].pc # "returned"}

Call(pc, busy, steps) == [pc |-> pc, busy |-> busy, steps |-> steps]

\* the calls of the two managers' entry points served so far
Arrivals == Len(cloud.calls) + Len(cross.calls)

(* CloudSyncManager (src/sync-app.js) *)

\* an autoSync call with the number of changes it passed to uploadChanges
Sent(call, n) == [pc |-> call.pc, busy |-> call.busy, steps |-> call.steps, sent |-> n]

autoSyncReturnsOffline(m) == ~m.isOnline

\* the guard of autoSync: the call returns at once
autoSyncReturns(m) == ~m.isOnline \/ m.syncStatus = "syncing"

\* autoSync up to its first await
autoSync(m) ==
    LET busy == InFlight(m.calls) # {}
    IN  IF autoSyncReturns(m)
        THEN [m EXCEPT !.calls = Append(@, Sent(Call("returned", busy, 0), 0))]
        ELSE [m EXCEPT !.syncStatus = "syncing",
                       !.calls = Append(@, Sent(Call(IF m.pendingChanges > 0 THEN "upload"
                                                     ELSE "download", busy, 1),
                                                m.pendingChanges))]

\* the callback of setInterval in startAutoSync
cloudTimerTick ==
    /\ cloud.syncInterval
    /\ Arrivals < MaxArrivals
    /\ cloud.isOnline
    /\ cloud' = autoSync(cloud)
    /\ UNCHANGED <<mistakeVars, syncVars, siteVars, cross, conn, exams>>

cloudOnlineRestarts ==
    /\ Arrivals < MaxArrivals
    /\ cloud' = autoSync([cloud EXCEPT !.isOnline = TRUE, !.syncInterval = TRUE])
    /\ UNCHANGED <<mistakeVars, syncVars, siteVars, cross, conn, exams>>

\* handleNetworkChange(true), the listener of the window's online event
cloudOnline ==
    /\ Arrivals < MaxArrivals
    /\ cloud' = autoSync([cloud EXCEPT !.isOnline = TRUE])
    /\ UNCHANGED <<mistakeVars, syncVars, siteVars, cross, conn, exams>>

\* handleNetworkChange(false): stopAutoSync clears the timer
cloudOffline ==
    /\ cloud.isOnline
    /\ cloud' = [cloud EXCEPT !.isOnline = FALSE, !.syncInterval = FALSE, !.stopped = TRUE]
    /\ UNCHANGED <<mistakeVars, syncVars, siteVars, cross, conn, exams>>

recordChange ==
    /\ Arrivals < MaxArrivals
    /\ cloud.pendingChanges < MaxPending
    /\ LET m == [cloud EXCEPT !.pendingChanges = @ + 1]
       IN  cloud' = IF m.isOnline THEN autoSync(m) ELSE m
    /\ UNCHANGED <<mistakeVars, syncVars, siteVars, cross, conn, exams>>

\* startAutoSync called by the page: the timer is set anew
cloudStartAutoSync ==
    /\ cloud' = [cloud EXCEPT !.syncInterval = TRUE, !.stopped = FALSE]
    /\ UNCHANGED <<mistakeVars, syncVars, siteVars, cross, conn, exams>>

manualSync ==
    /\ Arrivals < MaxArrivals
    /\ cloud' = autoSync(cloud)
    /\ UNCHANGED <<mistakeVars, syncVars, siteVars, cross, conn, exams>>

\* autoSync resumed after uploadChanges: the pending list is emptied and
\* stored; localStorage.setItem may throw, which the catch turns into 'error'
autoSyncUploaded(i, stored) ==
    /\ i \in 1..Len(cloud.calls)
    /\ cloud.calls[i].pc = "upload"
    /\ cloud' = IF stored
                THEN [cloud EXCEPT !.pendingChanges = 0,
                                   !.lost = @ + cloud.pendingChanges - cloud.calls[i].sent,
                                   !.calls[i].sent = 0,
                                   !.calls[i].pc = "download",
                                   !.calls[i].steps = @ + 1]
                ELSE [cloud EXCEPT !.pendingChanges = 0,
                                   !.lost = @ + cloud.pendingChanges - cloud.calls[i].sent,
                                   !.calls[i].sent = 0,
                                   !.syncStatus = "error",
                                   !.calls[i].pc = "returned",
                                   !.calls[i].steps = @ + 1]
    /\ UNCHANGED <<mistakeVars, syncVars, siteVars, cross, conn, exams>>

\* autoSync resumed after downloadData, which returns null: nothing to merge
autoSyncDownloaded(i, stored) ==
    /\ i \in 1..Len(cloud.calls)
    /\ cloud.calls[i].pc = "download"
    /\ cloud' = [cloud EXCEPT !.lastSyncTime = now,
                              !.syncVersion = @ + 1,
                              !.syncStatus = IF stored THEN "synced" ELSE "error",
                              !.calls[i].pc = "returned",
                              !.calls[i].steps = @ + 1]
    /\ UNCHANGED <<mistakeVars, syncVars, siteVars, cross, conn, exams>>

(* CrossDeviceSync (src/cross-device-sync.js) *)

SyncDevice == "A"

\* what the server's reply carries: no success, success without updated
\* data, or updated public questions
ServerReplies == {[success |-> FALSE, publicQuestions |-> <<>>],
                  [success |-> TRUE, publicQuestions |-> <<>>],
                  [success |-> TRUE,
                   publicQuestions |-> <<Question("q1", "c"), Question("q2", "c")>>]}

performSyncReturnsNever(m) == FALSE

\* the guard of performSync: the call returns at once
performSyncReturns(m) == m.isSyncing

\* step 2 of performSync and what follows it: the await the call reaches
\* when the save of step 1 is behind it
performSyncServer(m) == IF m.onLine THEN "server" ELSE "pending"

\* performSync up to its first await
performSync(m, a) ==
    LET busy == InFlight(m.calls) # {}
    IN  IF performSyncReturns(m)
        THEN [m EXCEPT !.calls = Append(@, Call("returned", busy, 0))]
        ELSE [m EXCEPT !.isSyncing = TRUE,
                       !.calls = Append(@, Call(IF Len(a.publicQuestionBank) > 0 THEN "save"
                                                ELSE performSyncServer(m), busy, 1))]

startAutoSync ==
    /\ ~cross.syncTimer
    /\ cross' = [cross EXCEPT !.syncTimer = TRUE]
    /\ UNCHANGED <<mistakeVars, syncVars, siteVars, cloud, conn, exams>>

\* the callback of setInterval in startAutoSync; currentUser tells whether
\* window.app has a user signed in
crossTimerTick(currentUser) ==
    /\ cross.syncTimer
    /\ Arrivals < MaxArrivals
    /\ cross.onLine /\ currentUser
    /\ cross' = performSync(cross, app[SyncDevice])
    /\ UNCHANGED <<mistakeVars, syncVars, siteVars, cloud, conn, exams>>

\* the listener of the window's online event registered by init
crossOnline ==
    /\ Arrivals < MaxArrivals
    /\ cross' = performSync([cross EXCEPT !.onLine = TRUE], app[SyncDevice])
    /\ UNCHANGED <<mistakeVars, syncVars, siteVars, cloud, conn, exams>>

crossOffline ==
    /\ cross.onLine
    /\ cross' = [cross EXCEPT !.onLine = FALSE]
    /\ UNCHANGED <<mistakeVars, syncVars, siteVars, cloud, conn, exams>>

performSyncFinallyKeepsFlag(m, i) ==
    [m EXCEPT !.calls[i].pc = "returned",
              !.calls[i].steps = @ + 1]

\* the finally block of performSync, reached on completion and on a throw
performSyncFinally(m, i) ==
    [m EXCEPT !.isSyncing = FALSE,
              !.calls[i].pc = "returned",
              !.calls[i].steps = @ + 1]

\* performSync resumed after savePublicQuestionsToIndexedDB
performSyncSaved(i, saved) ==
    /\ i \in 1..Len(cross.calls)
    /\ cross.calls[i].pc = "save"
    /\ cross' = IF saved
                THEN [cross EXCEPT !.calls[i].pc = performSyncServer(cross),
                                   !.calls[i].steps = @ + 1]
                ELSE performSyncFinally(cross, i)
    /\ UNCHANGED <<mistakeVars, syncVars, siteVars, cloud, conn, exams>>

\* performSync resumed after syncWithServer: updated public questions are
\* merged into window.app before the next await
performSyncSynced(i, reply) ==
    /\ i \in 1..Len(cross.calls)
    /\ cross.calls[i].pc = "server"
    /\ LET a == app[SyncDevice]
           merge == reply.success /\ Len(reply.publicQuestions) > 0
           add == legacyMergePublicQuestions(a.publicQuestionBank, reply.publicQuestions)
       IN  /\ cross' = [cross EXCEPT !.calls[i].pc = IF merge THEN "merge" ELSE "pending",
                                     !.calls[i].steps = @ + 1]
           /\ app' = IF merge
                     THEN [app EXCEPT ![SyncDevice].publicQuestionBank = @ \o add]
                     ELSE app
    /\ UNCHANGED <<mistakeVars, doc, imp, siteVars, cloud, conn, exams>>

\* performSync resumed after mergePublicQuestions
performSyncMerged(i) ==
    /\ i \in 1..Len(cross.calls)
    /\ cross.calls[i].pc = "merge"
    /\ cross' = [cross EXCEPT !.calls[i].pc = "pending", !.calls[i].steps = @ + 1]
    /\ UNCHANGED <<mistakeVars, syncVars, siteVars, cloud, conn, exams>>

\* performSync resumed after getPendingSyncRecords: no script creates sync
\* records, so the loop has nothing to process
performSyncPending(i) ==
    /\ i \in 1..Len(cross.calls)
    /\ cross.calls[i].pc = "pending"
    /\ cross' = performSyncFinally(cross, i)
    /\ UNCHANGED <<mistakeVars, syncVars, siteVars, cloud, conn, exams>>

InitManagers ==
    /\ MistakesIdle
    /\ doc = NoSyncDoc
    /\ imp = NoImport
    /\ conn = DbModule
    /\ exams = [i \in ExamIds |-> NoExam]
    /\ SiteIdle
    /\ \E a \in {EmptyApp, OtherApp} :
          app = [d \in Devices |-> IF d = SyncDevice THEN a ELSE EmptyApp]
    /\ \E onLine \in BOOLEAN :
          /\ cloud = CloudSyncManager(onLine)
          /\ cross = CrossDeviceSync(onLine)

NextManagers ==
    \/ cloudTimerTick
    \/ cloudOnline
    \/ cloudOffline
    \/ recordChange
    \/ cloudStartAutoSync
    \/ manualSync
    \/ \E i \in 1..MaxArrivals, stored \in BOOLEAN : autoSyncUploaded(i, stored)
    \/ \E i \in 1..MaxArrivals, stored \in BOOLEAN : autoSyncDownloaded(i, stored)
    \/ startAutoSync
    \/ \E currentUser \in BOOLEAN : crossTimerTick(currentUser)
    \/ crossOnline
    \/ crossOffline
    \/ \E i \in 1..MaxArrivals, saved \in BOOLEAN : performSyncSaved(i, saved)
    \/ \E i \in 1..MaxArrivals, reply \in ServerReplies : performSyncSynced(i, reply)
    \/ \E i \in 1..MaxArrivals : performSyncMerged(i)
    \/ \E i \in 1..MaxArrivals : performSyncPending(i)

SpecManagers == InitManagers /\ [][NextManagers]_vars

----------------------------------------------------------------------------
(* Properties of the sync managers *)

\* C18: per sync manager at most one call is in flight, and a call that
\* arrived while an earlier call was in flight has returned and has never
\* executed a sync step.
SingleSyncInFlight ==
    /\ Cardinality(InFlight(cloud.calls)) <= 1
    /\ Cardinality(InFlight(cross.calls)) <= 1
    /\ \A i \in 1..Len(cloud.calls) :
          cloud.calls[i].busy => cloud.calls[i].pc = "returned" /\ cloud.calls[i].steps = 0
    /\ \A i \in 1..Len(cross.calls) :
          cross.calls[i].busy => cross.calls[i].pc = "returned" /\ cross.calls[i].steps = 0

\* C18 witness: both managers have a call in flight, and a later call to
\* autoSync, which arrived meanwhile, has been dropped.
SingleSyncInFlightReached ==
    /\ \E i \in InFlight(cloud.calls) :
          \E j \in 1..Len(cloud.calls) : j > i /\ cloud.calls[j].busy
    /\ InFlight(cross.calls) # {}

----------------------------------------------------------------------------
(* The database connection (src/config/db.js) *)

MAX_RETRIES == 5
RETRY_DELAY == 5000

MaxConnections == 3

\* the clock advances in steps of one retry delay, as far as the last retry
TickStep == RETRY_DELAY
LastRetry == MAX_RETRIES * RETRY_DELAY

handleConnectionErrorNoLimit(c) ==
    [c EXCEPT !.connectionRetryCount = @ + 1,
              !.timers = Append(@, [at |-> c.clock, due |-> c.clock + RETRY_DELAY]),
              !.scheduled = @ + 1,
              !.failure = [count |-> c.connectionRetryCount, exited |-> FALSE]]

handleConnectionError(c) ==
    IF c.connectionRetryCount < MAX_RETRIES
    THEN [c EXCEPT !.connectionRetryCount = @ + 1,
                   !.timers = Append(@, [at |-> c.clock, due |-> c.clock + RETRY_DELAY]),
                   !.scheduled = @ + 1,
                   !.failure = [count |-> c.connectionRetryCount, exited |-> FALSE]]
    ELSE [c EXCEPT !.exited = TRUE,
                   !.failure = [count |-> c.connectionRetryCount, exited |-> TRUE]]

\* an 'error' or 'disconnected' event of the connection: each listener set
\* that a connectDB call registered runs, until one of them ends the process
RECURSIVE emitFailure(_, _)
emitFailure(c, n) ==
    IF n = 0 \/ c.exited THEN c
    ELSE emitFailure(handleConnectionError([c EXCEPT !.isConnected = FALSE]), n - 1)

\* the 'connected' listeners
emitConnected(c) ==
    IF c.listeners = 0 THEN c
    ELSE [c EXCEPT !.isConnected = TRUE, !.connectionRetryCount = 0]

\* the calls of connectDB by the application, the connections opened and the
\* connections restored by the driver so far
Connections(c) == c.external + c.listeners + c.restored

\* connectDB up to the await of mongoose.connect
connectDBCall(c) ==
    IF c.isConnected THEN c ELSE [c EXCEPT !.connecting = @ + 1]

\* connectDB called by the application
connectDB ==
    /\ ~conn.exited
    /\ Connections(conn) < MaxConnections
    /\ conn' = connectDBCall([conn EXCEPT !.external = @ + 1])
    /\ UNCHANGED <<mistakeVars, syncVars, siteVars, cloud, cross, exams>>

\* mongoose.connect resolved: the connection was opened, or was open already
\* (emitted tells whether it emitted 'connected' on the way); the listeners
\* of this call are registered after the event
connectDBResolved(emitted) ==
    /\ ~conn.exited
    /\ conn.connecting > 0
    /\ Connections(conn) < MaxConnections
    /\ LET c == IF emitted THEN emitConnected(conn) ELSE conn
       IN  conn' = [c EXCEPT !.connecting = @ - 1,
                             !.listeners = @ + 1,
                             !.scheduled = 0]
    /\ UNCHANGED <<mistakeVars, syncVars, siteVars, cloud, cross, exams>>

\* mongoose.connect rejected: the catch block
connectDBRejected ==
    /\ ~conn.exited
    /\ conn.connecting > 0
    /\ conn' = handleConnectionError([conn EXCEPT !.connecting = @ - 1])
    /\ UNCHANGED <<mistakeVars, syncVars, siteVars, cloud, cross, exams>>

\* the driver lost the connection or reported an error
connectionFailed ==
    /\ ~conn.exited
    /\ conn.listeners > 0
    /\ conn' = emitFailure(conn, conn.listeners)
    /\ UNCHANGED <<mistakeVars, syncVars, siteVars, cloud, cross, exams>>

\* the driver re-established the connection by itself
connectionRestored ==
    /\ ~conn.exited
    /\ conn.listeners > 0
    /\ ~conn.isConnected
    /\ Connections(conn) < MaxConnections
    /\ conn' = [emitConnected(conn) EXCEPT !.scheduled = 0, !.restored = @ + 1]
    /\ UNCHANGED <<mistakeVars, syncVars, siteVars, cloud, cross, exams>>

\* the callback handleConnectionError passed to setTimeout
reconnectTimer ==
    /\ ~conn.exited
    /\ conn.timers # <<>>
    /\ Head(conn.timers).due <= conn.clock
    /\ conn' = connectDBCall([conn EXCEPT !.timers = Tail(@)])
    /\ UNCHANGED <<mistakeVars, syncVars, siteVars, cloud, cross, exams>>

clockTick ==
    /\ ~conn.exited
    /\ conn.clock < LastRetry
    /\ conn' = [conn EXCEPT !.clock = @ + TickStep]
    /\ UNCHANGED <<mistakeVars, syncVars, siteVars, cloud, cross, exams>>

InitDb == MistakesIdle /\ SyncIdle /\ ServicesIdle

NextDb ==
    \/ connectDB
    \/ \E emitted \in BOOLEAN : connectDBResolved(emitted)
    \/ connectDBRejected
    \/ connectionFailed
    \/ connectionRestored
    \/ reconnectTimer
    \/ clockTick

SpecDb == InitDb /\ [][NextDb]_vars

----------------------------------------------------------------------------
(* Properties of the database connection *)

\* C19: since the last successful connection at most MAX_RETRIES reconnects
\* have been scheduled, each one RETRY_DELAY after the failure that caused
\* it; connectionRetryCount never exceeds MAX_RETRIES; and the process has
\* been terminated exactly when a failure arrived with all retries used.
ReconnectBounded ==
    /\ conn.scheduled <= 5
    /\ conn.connectionRetryCount <= 5
    /\ \A k \in 1..Len(conn.timers) : conn.timers[k].due = conn.timers[k].at + 5000
    /\ conn.failure.count = 5 <=> conn.exited
    /\ conn.exited => conn.failure.exited

\* C19 witness: five reconnects in a row were scheduled and run with no
\* successful connection, and the failure of the fifth ended the process.
ReconnectBoundedReached ==
    /\ conn.exited
    /\ conn.listeners = 0
    /\ conn.scheduled = 5
    /\ conn.timers = <<>>
    /\ conn.clock >= 5 * 5000

----------------------------------------------------------------------------
(* Exam records (src/models/ExamRecord.js).  The grades '优秀', '良好',      *)
(* '及格' and '不及格' are written "excellent", "good", "pass" and "fail".   *)
(* A document holds the paths the statics and the pre('save') hook read or  *)
(* write; shareCode tells whether a code has been generated.  History:      *)
(* given is the grade the caller supplied when the record was created, and  *)
(* asked is the sharing.isPublic of the owner's latest updateExamRecord     *)
(* that carried one ("public", "private"; "absent" when there was none).    *)

MaxViews == 1

Grades == {"excellent", "good", "pass", "fail"}
NoGrade == "absent"
\* result.grade as a caller may send it: absent, a member of the enum, or not
GradeInputs == {NoGrade, "excellent", "A"}
\* result.score as a caller may send it; -1 and 101 are outside the range
ScoreInputs == {-1, 59, 60, 79, 80, 90, 101}

\* new ExamRecord(recordData): the schema's defaults fill what is absent
NewExam(user, score, grade, isPublic) ==
    [user |-> user, score |-> score,
     grade |-> IF grade = NoGrade THEN "fail" ELSE grade,
     passingScore |-> 60, isPassed |-> FALSE,
     isPublic |-> isPublic, shareCode |-> FALSE,
     viewCount |-> 0, reviewCount |-> 0, given |-> grade, asked |-> "absent"]

\* schema validation, which save() runs before the pre('save') hooks
ExamValidate(d) ==
    /\ d.score >= 0 /\ d.score <= 100
    /\ d.grade \in Grades

examPreSaveKeepsGrade(d) ==
    [d EXCEPT !.isPassed = d.score >= d.passingScore,
              !.shareCode = IF d.isPublic /\ ~d.shareCode THEN TRUE ELSE @]

examPreSave(d) ==
    [d EXCEPT !.grade = IF d.score >= 90 THEN "excellent"
                        ELSE IF d.score >= 80 THEN "good"
                        ELSE IF d.score >= 60 THEN "pass"
                        ELSE "fail",
              !.isPassed = d.score >= d.passingScore,
              !.shareCode = IF d.isPublic /\ ~d.shareCode THEN TRUE ELSE @]

\* the views and reviews counted on a record so far
Visits(d) == d.viewCount + d.reviewCount

createExamRecord(user, score, grade, isPublic) ==
    /\ \E i \in ExamIds :
          /\ exams[i] = NoExam
          /\ \A j \in ExamIds : j < i => exams[j] # NoExam
          /\ LET record == NewExam(user, score, grade, isPublic)
             IN  exams' = IF ExamValidate(record)
                          THEN [exams EXCEPT ![i] = examPreSave(record)]
                          ELSE exams
    /\ UNCHANGED <<mistakeVars, syncVars, siteVars, cloud, cross, conn>>

\* getExamRecordById by a signed-in user: a view by somebody else is counted
getExamRecordById(recordId, userId) ==
    /\ LET record == exams[recordId]
           found == record # NoExam /\ (record.user = userId \/ record.isPublic)
       IN  IF found /\ userId # record.user /\ Visits(record) < MaxViews
           THEN exams' = [exams EXCEPT ![recordId] =
                              examPreSave([record EXCEPT !.viewCount = @ + 1])]
           ELSE UNCHANGED exams
    /\ UNCHANGED <<mistakeVars, syncVars, siteVars, cloud, cross, conn>>

\* getExamRecordByShareCode with the code of record recordId
getExamRecordByShareCode(recordId) ==
    /\ LET record == exams[recordId]
           found == record # NoExam /\ record.shareCode /\ record.isPublic
       IN  IF found /\ Visits(record) < MaxViews
           THEN exams' = [exams EXCEPT ![recordId] =
                              examPreSave([record EXCEPT !.viewCount = @ + 1])]
           ELSE UNCHANGED exams
    /\ UNCHANGED <<mistakeVars, syncVars, siteVars, cloud, cross, conn>>

\* updateExamRecord: the allowed fields are collected and not applied; the
\* review count and the share code are changed on the record, which is saved
updateExamRecord(recordId, userId, reviewNotes, sharing) ==
    /\ LET record == exams[recordId]
           reviewed == IF reviewNotes /\ Visits(record) < MaxViews
                       THEN [record EXCEPT !.reviewCount = @ + 1]
                       ELSE record
           coded == IF sharing = "public" /\ ~record.shareCode
                    THEN [reviewed EXCEPT !.shareCode = TRUE]
                    ELSE IF sharing = "private"
                         THEN [reviewed EXCEPT !.shareCode = FALSE]
                         ELSE reviewed
           shared == [coded EXCEPT !.asked = IF sharing = "absent" THEN @ ELSE sharing]
       IN  IF record # NoExam /\ record.user = userId
           THEN exams' = [exams EXCEPT ![recordId] = examPreSave(shared)]
           ELSE UNCHANGED exams
    /\ UNCHANGED <<mistakeVars, syncVars, siteVars, cloud, cross, conn>>

deleteExamRecord(recordId, userId) ==
    /\ LET record == exams[recordId]
       IN  IF record # NoExam /\ record.user = userId
           THEN exams' = [exams EXCEPT ![recordId] = NoExam]
           ELSE UNCHANGED exams
    /\ UNCHANGED <<mistakeVars, syncVars, siteVars, cloud, cross, conn>>

InitExams == MistakesIdle /\ SyncIdle /\ ServicesIdle

NextExams ==
    \/ \E user \in Users, score \in ScoreInputs, grade \in GradeInputs, isPublic \in BOOLEAN :
          createExamRecord(user, score, grade, isPublic)
    \/ \E recordId \in ExamIds, userId \in Users : getExamRecordById(recordId, userId)
    \/ \E recordId \in ExamIds : getExamRecordByShareCode(recordId)
    \/ \E recordId \in ExamIds, userId \in Users, reviewNotes \in BOOLEAN,
          sharing \in {"absent", "public", "private"} :
          updateExamRecord(recordId, userId, reviewNotes, sharing)
    \/ \E recordId \in ExamIds, userId \in Users : deleteExamRecord(recordId, userId)

SpecExams == InitExams /\ [][NextExams]_vars

----------------------------------------------------------------------------
(* Properties of exam records *)

\* C20: every stored exam record has the grade its score determines:
\* excellent from 90, good from 80 to 89, pass from 60 to 79, fail below 60.
GradeFollowsScore ==
    \A i \in ExamIds :
        exams[i] # NoExam =>
            /\ exams[i].score >= 90 => exams[i].grade = "excellent"
            /\ (exams[i].score >= 80 /\ exams[i].score < 90) => exams[i].grade = "good"
            /\ (exams[i].score >= 60 /\ exams[i].score < 80) => exams[i].grade = "pass"
            /\ exams[i].score < 60 => exams[i].grade = "fail"

\* C20 witness: a record created with the grade excellent and a score of 59
\* is stored as a fail, and a later save (a counted view) has kept it so.
GradeFollowsScoreReached ==
    \E i \in ExamIds :
        /\ exams[i] # NoExam
        /\ exams[i].given = "excellent"
        /\ exams[i].score = 59
        /\ exams[i].grade = "fail"
        /\ exams[i].viewCount > 0

----------------------------------------------------------------------------
(* Further properties of the review scheduler *)

\* C22: every stored consecutiveCorrect is 0, 1 or 2, and a correct review
\* of a record that held the streak 0, 1 or 2 schedules the next review 1, 2
\* or 4 days ahead respectively; no later entry of the table is used.
StreakBelowThree ==
    /\ \A i \in MistakeIds : db[i] # NoDoc => db[i].consecutiveCorrect \in {0, 1, 2}
    /\ (ReviewServed /\ result.isCorrect) =>
          /\ result.before.consecutiveCorrect = 0 => db[result.id].nextReviewDate = result.at + 1
          /\ result.before.consecutiveCorrect = 1 => db[result.id].nextReviewDate = result.at + 2
          /\ result.before.consecutiveCorrect = 2 => db[result.id].nextReviewDate = result.at + 4
          /\ db[result.id].nextReviewDate - result.at \in {1, 2, 4}

\* C22 witness: a record reviewed at least five times before has been
\* reviewed correctly on a streak of two and is due again in four days.
StreakBelowThreeReached ==
    /\ ReviewServed /\ result.isCorrect
    /\ result.before.reviewCount >= 5
    /\ result.before.consecutiveCorrect = 2
    /\ db[result.id].consecutiveCorrect = 0
    /\ db[result.id].nextReviewDate = result.at + 4

\* C29: a recordReview served on an archived record leaves it archived, and
\* leaves its reviewStatus 'mastered' when it was so, whatever the answer
\* and whatever masteryLevel results.
ReviewKeepsArchived ==
    (ReviewServed /\ result.before.isArchived) =>
        /\ db[result.id].isArchived
        /\ db[result.id].archiveDate = result.before.archiveDate
        /\ db[result.id].reviewStatus = result.before.reviewStatus
        /\ result.before.reviewStatus = "mastered"

\* C29 witness: an incorrect review of a record archived at masteryLevel 5
\* has lowered the level to 4 and the record is still archived and mastered.
ReviewKeepsArchivedReached ==
    /\ ReviewServed /\ ~result.isCorrect
    /\ result.before.isArchived
    /\ result.before.masteryLevel = 5
    /\ db[result.id].masteryLevel = 4
    /\ db[result.id].isArchived
    /\ db[result.id].reviewStatus = "mastered"

----------------------------------------------------------------------------
(* createMistakeRecord with its two awaits apart: calls of different        *)
(* requests interleave between the findOne and the save                     *)

\* createMistakeRecord up to the await of findOne; found is the id of the
\* active record of the pair, or 0
createFind(p, u, q, importance) ==
    /\ calls < MaxCalls
    /\ req[p].pc = "idle"
    /\ LET found == IF ActiveFor(u, q) # {} THEN MinOf(ActiveFor(u, q)) ELSE 0
       IN  req' = [req EXCEPT ![p] =
                      [pc |-> "creating", user |-> u, question |-> q,
                       importance |-> importance, found |-> found,
                       loaded |-> IF found = 0 THEN NoDoc ELSE db[found]]]
    /\ calls' = calls + 1
    /\ UNCHANGED <<db, nextId, now, result, run, race, syncVars, serviceVars, siteVars>>

\* the rest of createMistakeRecord: the existing record is updated and
\* saved, or a new document is saved
createSave(p) ==
    /\ req[p].pc = "creating"
    /\ LET e == req[p].found
           u == req[p].user
       IN  IF e # 0
           THEN LET mem == [req[p].loaded EXCEPT
                               !.totalAttempts = @ + 1,
                               !.importance = IF req[p].importance = 0 THEN @
                                              ELSE req[p].importance]
                IN  IF db[e] # NoDoc /\ Validate(mem)
                    THEN /\ db' = [db EXCEPT ![e] = SaveDoc(db[e], req[p].loaded, PreSave(mem, now))]
                         /\ result' = [Res("createMistakeRecord", "ok", e, u) EXCEPT
                                          !.before = req[p].loaded]
                         /\ UNCHANGED <<nextId, run>>
                    ELSE /\ result' = Res("createMistakeRecord", "error", e, u)
                         /\ UNCHANGED <<db, nextId, run>>
           ELSE LET mem == NewDoc(u, req[p].question, req[p].importance, now)
                IN  IF Validate(mem)
                    THEN /\ nextId <= MaxRecords
                         /\ db' = [db EXCEPT ![nextId] = PreSave(mem, now)]
                         /\ nextId' = nextId + 1
                         /\ run' = [run EXCEPT ![nextId] = [m0 |-> db'[nextId].masteryLevel, n |-> 0]]
                         /\ result' = Res("createMistakeRecord", "ok", nextId, u)
                    ELSE /\ result' = Res("createMistakeRecord", "error", 0, u)
                         /\ UNCHANGED <<db, nextId, run>>
    /\ req' = [req EXCEPT ![p] = Idle]
    /\ UNCHANGED <<now, calls, race, syncVars, serviceVars, siteVars>>

NextCreate ==
    \/ \E p \in Procs, u \in Users, q \in Questions, importance \in ImportanceInputs :
          createFind(p, u, q, importance)
    \/ \E p \in Procs : createSave(p)
    \/ Tick

SpecCreate == Init /\ [][NextCreate]_vars

\* C23 as stated: no user has two records of one question that are not
\* archived.
OneActivePerPair ==
    \A u \in Users, q \in Questions : Cardinality(ActiveFor(u, q)) <= 1

----------------------------------------------------------------------------
(* Further properties of the sync managers *)

\* C24 as stated: no change has been removed from pendingChanges without
\* having been part of the list handed to an uploadChanges call that
\* completed.
NoChangeDropped == cloud.lost = 0

\* C25: when no call of a manager is in flight its guard is clear:
\* syncStatus is not 'syncing' and isSyncing is false; and an autoSync call
\* that ran and has returned while no later one is in flight left
\* syncStatus 'synced' or 'error'.
GuardReleased ==
    /\ InFlight(cloud.calls) = {} => cloud.syncStatus \in {"idle", "synced", "error"}
    /\ (InFlight(cloud.calls) = {} /\ \E i \in 1..Len(cloud.calls) : cloud.calls[i].steps > 0)
          => cloud.syncStatus \in {"synced", "error"}
    /\ InFlight(cross.calls) = {} => ~cross.isSyncing

\* C25 witness: in each manager a sync has failed and returned, and a later
\* call has passed the guard.
GuardReleasedReached ==
    /\ cloud.syncStatus = "error"
    /\ InFlight(cloud.calls) = {}
    /\ \E i \in 1..Len(cross.calls) :
          /\ cross.calls[i].pc = "returned" /\ cross.calls[i].steps = 2
          /\ \E j \in InFlight(cross.calls) : j > i

\* C26: an offline event stops the timer and starts no sync; an online
\* event starts exactly one autoSync call and leaves the timer as it is; the
\* timer is set again only by a step that is neither of them; and while an
\* offline event has stopped the timer with no startAutoSync since, no timer
\* is set.
OnlineDoesNotRearm ==
    [][/\ (cloud.isOnline /\ ~cloud'.isOnline) =>
              (~cloud'.syncInterval /\ cloud'.calls = cloud.calls)
       /\ (~cloud.isOnline /\ cloud'.isOnline) =>
              /\ cloud'.syncInterval = cloud.syncInterval
              /\ Len(cloud'.calls) = Len(cloud.calls) + 1
       /\ (~cloud.syncInterval /\ cloud'.syncInterval) =>
              (cloud'.isOnline = cloud.isOnline /\ cloud'.calls = cloud.calls)
       /\ cloud'.stopped => ~cloud'.syncInterval]_vars

\* C26 witness: after an offline event the browser is online again, the
\* autoSync of the online event has run to its end, and no timer is set.
OnlineDoesNotRearmReached ==
    /\ cloud.stopped /\ cloud.isOnline /\ ~cloud.syncInterval
    /\ cloud.syncStatus = "synced"
    /\ Len(cloud.calls) >= 2

----------------------------------------------------------------------------
(* Further properties of exam records *)

\* C28 as stated: a record whose owner's latest updateExamRecord set
\* sharing.isPublic to true is stored public with a share code, so that
\* getExamRecordByShareCode finds it; one whose latest update set it to
\* false is found by no share code.
SharingFollowsUpdate ==
    \A i \in ExamIds :
        exams[i] # NoExam =>
            /\ exams[i].asked = "public" => (exams[i].isPublic /\ exams[i].shareCode)
            /\ exams[i].asked = "private" => ~(exams[i].isPublic /\ exams[i].shareCode)

----------------------------------------------------------------------------
(* The study statistics routes (src/routes/stats.js) on the studyStats of   *)
(* one user's UserData document.  An exam record holds the three numbers    *)
(* the counters are computed from; the scores, which the counters do not    *)
(* read, are left out.  A save that fails validation stores nothing.        *)

\* Math.round((correctAnswers / totalQuestions) * 100)
RoundedRate(correctAnswers, totalQuestions) ==
    (200 * correctAnswers + totalQuestions) \div (2 * totalQuestions)

\* the validators of studyStatsSchema and of the exam records in it
StatsValidate(s) ==
    /\ s.totalQuestions >= 0 /\ s.correctAnswers >= 0 /\ s.totalStudyTime >= 0
    /\ s.correctRate >= 0 /\ s.correctRate <= 100
    /\ \A i \in 1..Len(s.examRecords) :
          /\ s.examRecords[i].correctCount >= 0
          /\ s.examRecords[i].totalQuestions >= 1
          /\ s.examRecords[i].duration >= 1

\* userData.save()
StatsSave(s) == IF StatsValidate(s) THEN s ELSE stats

\* the recomputation of correctRate that PUT / and updateStudyStats share:
\* the rate is left as it is when no question is counted
WithRate(s) ==
    IF s.totalQuestions > 0
    THEN [s EXCEPT !.correctRate = RoundedRate(s.correctAnswers, s.totalQuestions)]
    ELSE s

updateStudyStats(s, correctCount, totalCount, duration) ==
    WithRate([s EXCEPT !.totalQuestions = @ + totalCount,
                       !.correctAnswers = @ + correctCount,
                       !.totalStudyTime = @ + duration])

addExamRecord(s, record) ==
    LET pushed == Append(s.examRecords, record)
    IN  [s EXCEPT !.examRecords =
            IF Len(pushed) > 100
            THEN SubSeq(pushed, Len(pushed) - 99, Len(pushed))
            ELSE pushed]

\* POST /exam
postExam(correctCount, totalQuestions, duration) ==
    /\ Len(stats.examRecords) < MaxStatRecords
    /\ LET record == [correctCount |-> correctCount,
                      totalQuestions |-> totalQuestions, duration |-> duration]
       IN  stats' = StatsSave(updateStudyStats(addExamRecord(stats, record),
                                               correctCount, totalQuestions, duration))
    /\ UNCHANGED <<mistakeVars, syncVars, serviceVars, account, server>>

\* DELETE /exams/:index
deleteExam(index) ==
    /\ IF index < 0 \/ index >= Len(stats.examRecords)
       THEN UNCHANGED stats
       ELSE LET removedRecord == stats.examRecords[index + 1]
                spliced == [i \in 1..(Len(stats.examRecords) - 1) |->
                               IF i <= index THEN stats.examRecords[i]
                               ELSE stats.examRecords[i + 1]]
                counted == [stats EXCEPT
                               !.examRecords = spliced,
                               !.totalQuestions = @ - removedRecord.totalQuestions,
                               !.correctAnswers = @ - removedRecord.correctCount,
                               !.totalStudyTime = @ - removedRecord.duration]
            IN  stats' = StatsSave(IF counted.totalQuestions > 0
                                   THEN WithRate(counted)
                                   ELSE [counted EXCEPT !.correctRate = 0])
    /\ UNCHANGED <<mistakeVars, syncVars, serviceVars, account, server>>

\* a field of the body of PUT /: absent (<<>>) or a number
StatInputs == {<<>>, <<-1>>, <<0>>, <<1>>}

\* PUT /
putStats(totalQuestions, correctAnswers, totalStudyTime) ==
    /\ stats' = StatsSave(WithRate(
          [stats EXCEPT
              !.totalQuestions = IF totalQuestions # <<>> THEN totalQuestions[1] ELSE @,
              !.correctAnswers = IF correctAnswers # <<>> THEN correctAnswers[1] ELSE @,
              !.totalStudyTime = IF totalStudyTime # <<>> THEN totalStudyTime[1] ELSE @]))
    /\ UNCHANGED <<mistakeVars, syncVars, serviceVars, account, server>>

\* DELETE /
resetStats(confirm) ==
    /\ stats' = IF confirm THEN StatsSave(NewStudyStats) ELSE stats
    /\ UNCHANGED <<mistakeVars, syncVars, serviceVars, account, server>>

InitStats == MistakesIdle /\ SyncIdle /\ ServicesIdle

NextStats ==
    \/ \E correctCount \in {0, 1}, totalQuestions \in {0, 1, 2}, duration \in {0, 1} :
          postExam(correctCount, totalQuestions, duration)
    \/ \E index \in -1..MaxStatRecords : deleteExam(index)
    \/ \E totalQuestions \in StatInputs, correctAnswers \in StatInputs,
          totalStudyTime \in StatInputs :
          putStats(totalQuestions, correctAnswers, totalStudyTime)
    \/ \E confirm \in BOOLEAN : resetStats(confirm)

SpecStats == InitStats /\ [][NextStats]_vars

----------------------------------------------------------------------------
(* Properties of the study statistics *)

\* C21 as stated: no stats operation lowers the stored totalQuestions,
\* correctAnswers or totalStudyTime.
CountersNeverFall ==
    [][/\ stats'.totalQuestions >= stats.totalQuestions
       /\ stats'.correctAnswers >= stats.correctAnswers
       /\ stats'.totalStudyTime >= stats.totalStudyTime]_vars

----------------------------------------------------------------------------
(* Login lockout: the methods of userSchema (src/models/Question.js) and    *)
(* POST /login (src/routes/api/users.js) on one active account.  No route   *)
(* changes the status of an account, so the status check always passes.     *)

\* config.security
maxLoginAttempts == 5
lockoutDuration == 300000

\* the step of the login clock, so that a lock is seen half-way and at its end
LoginTick == lockoutDuration \div 2

\* what user.isLocked() returns
isLocked(u) == u.lockedUntil # NoDate /\ u.lockedUntil > u.clock

\* what user.isLocked() does to the document: an expired lock is cleared
isLockedClears(u) ==
    IF u.lockedUntil # NoDate /\ u.lockedUntil <= u.clock
    THEN [u EXCEPT !.loginAttempts = 0, !.lockedUntil = NoDate]
    ELSE u

incrementLoginAttemptsNeverLocks(u) ==
    [u EXCEPT !.loginAttempts = @ + 1]

incrementLoginAttempts(u) ==
    [u EXCEPT !.loginAttempts = @ + 1,
              !.lockedUntil = IF u.loginAttempts + 1 >= maxLoginAttempts
                              THEN u.clock + lockoutDuration
                              ELSE @]

resetLoginAttempts(u) ==
    [u EXCEPT !.loginAttempts = 0, !.lockedUntil = NoDate]

\* the response of the login served last, with the paths as stored before it
Served(u, code) ==
    [u EXCEPT !.logins = account.logins + 1,
              !.last = [code |-> code, at |-> account.clock,
                        loginAttempts |-> account.loginAttempts,
                        lockedUntil |-> account.lockedUntil]]

\* POST /login with an identifier that is found or not, and a password that
\* is the account's or not.  The document is saved only on the two paths
\* that reach user.save().
login(found, passwordValid) ==
    /\ account.logins < MaxLogins
    /\ account' =
          IF ~found
          THEN Served(account, "USER_NOT_FOUND")
          ELSE IF isLocked(account)
          THEN Served(account, "ACCOUNT_LOCKED")
          ELSE IF ~passwordValid
          THEN Served([incrementLoginAttempts(isLockedClears(account))
                          EXCEPT !.wrong = @ + 1], "INVALID_CREDENTIALS")
          ELSE Served([resetLoginAttempts(isLockedClears(account))
                          EXCEPT !.wrong = 0], "OK")
    /\ UNCHANGED <<mistakeVars, syncVars, serviceVars, stats, server>>

\* time passes
loginTick ==
    /\ account.clock < MaxLoginTicks * LoginTick
    /\ account' = [account EXCEPT !.clock = @ + LoginTick]
    /\ UNCHANGED <<mistakeVars, syncVars, serviceVars, stats, server>>

InitLogin == MistakesIdle /\ SyncIdle /\ ServicesIdle

NextLogin ==
    \/ \E found \in BOOLEAN, passwordValid \in BOOLEAN : login(found, passwordValid)
    \/ loginTick

SpecLogin == InitLogin /\ [][NextLogin]_vars

----------------------------------------------------------------------------
(* Properties of the login lockout *)

\* C27: the wrong-password login that is the fifth in a row stores a lock
\* that lasts lockoutDuration from then; a login that finds the account
\* locked (lockedUntil later than the time of the call) is answered as
\* locked, whatever the password, and leaves loginAttempts and lockedUntil
\* as they were; a successful login stores loginAttempts 0 and no
\* lockedUntil.
LockoutHolds ==
    /\ (account.last.code = "INVALID_CREDENTIALS" /\ account.wrong = maxLoginAttempts) =>
          /\ account.loginAttempts = maxLoginAttempts
          /\ account.lockedUntil = account.last.at + lockoutDuration
    /\ (account.last.code \in {"ACCOUNT_LOCKED", "INVALID_CREDENTIALS", "OK"}
          /\ account.last.lockedUntil # NoDate
          /\ account.last.lockedUntil > account.last.at) =>
          account.last.code = "ACCOUNT_LOCKED"
    /\ account.last.code = "ACCOUNT_LOCKED" =>
          /\ account.loginAttempts = account.last.loginAttempts
          /\ account.lockedUntil = account.last.lockedUntil
    /\ account.last.code = "OK" =>
          /\ account.loginAttempts = 0
          /\ account.lockedUntil = NoDate
    /\ (account.lockedUntil # NoDate /\ account.lockedUntil > account.clock) =>
          account.loginAttempts >= maxLoginAttempts

\* C27 witness: five wrong passwords in a row have locked the account, and
\* a login half-way through the lock has been answered as locked.
LockoutHoldsReached ==
    /\ account.wrong = maxLoginAttempts
    /\ account.last.code = "ACCOUNT_LOCKED"
    /\ account.last.at > 0
    /\ account.loginAttempts = maxLoginAttempts
    /\ account.lockedUntil > account.clock

----------------------------------------------------------------------------
(* The cache of the static file server (src/unnamed/part_002).  A file's    *)
(* content is modelled by its length.                                       *)

maxCacheSize == 104857600
MAX_AGE == 86400000

\* the step of the server's clock: an entry is seen half-way and at its end
ServerTick == MAX_AGE \div 2

\* content.length of the file as readFileSync returns it
FileSizes == {0, maxCacheSize \div 2, maxCacheSize, maxCacheSize + 1}

\* the positions of filePath in the Map: none or one
CachedAt(cache, filePath) == {i \in 1..Len(cache) : cache[i].path = filePath}

\* Map.delete: the entry at position i is removed
cacheDelete(cache, i) ==
    [j \in 1..(Len(cache) - 1) |-> IF j < i THEN cache[j] ELSE cache[j + 1]]

\* what getFromCache leaves of the server: an entry past MAX_AGE is deleted
getFromCache(s, filePath) ==
    LET at == CachedAt(s.cache, filePath)
    IN  IF at = {} THEN s
        ELSE LET i == CHOOSE i \in at : TRUE
             IN  IF s.clock - s.cache[i].timestamp < MAX_AGE
                 THEN s
                 ELSE [s EXCEPT !.cache = cacheDelete(s.cache, i),
                                !.cacheSize = @ - s.cache[i].length]

\* whether getFromCache returns the content
cacheHit(s, filePath) ==
    \E i \in CachedAt(s.cache, filePath) : s.clock - s.cache[i].timestamp < MAX_AGE

\* Array.from(entries).reduce((a, b) => a[1].timestamp < b[1].timestamp ? a : b)
\* over the first n entries: the position of the entry it returns
RECURSIVE oldest(_, _)
oldest(cache, n) ==
    IF n = 1 THEN 1
    ELSE LET a == oldest(cache, n - 1)
         IN  IF cache[a].timestamp < cache[n].timestamp THEN a ELSE n

\* the while loop of addToCache
RECURSIVE evict(_, _)
evict(s, contentLength) ==
    IF s.cacheSize + contentLength > maxCacheSize /\ Len(s.cache) > 0
    THEN LET i == oldest(s.cache, Len(s.cache))
         IN  evict([s EXCEPT !.cache = cacheDelete(s.cache, i),
                             !.cacheSize = @ - s.cache[i].length,
                             !.evicted = Append(@, s.cache[i].timestamp)],
                   contentLength)
    ELSE s

addToCache(s, filePath, contentLength) ==
    LET e == evict([s EXCEPT !.evicted = <<>>], contentLength)
        entry == [path |-> filePath, length |-> contentLength, timestamp |-> s.clock]
        at == CachedAt(e.cache, filePath)
    IN  [e EXCEPT !.kept = {e.cache[i].timestamp : i \in 1..Len(e.cache)},
                  !.cache = IF at = {} THEN Append(e.cache, entry)
                            ELSE [i \in 1..Len(e.cache) |->
                                     IF i \in at THEN entry ELSE e.cache[i]],
                  !.cacheSize = @ + contentLength]

\* sendFile for a path under PUBLIC_DIR; exists is what fs.existsSync
\* returns and contentLength the length of the file read
sendFile(filePath, exists, contentLength) ==
    /\ server' = IF ~exists THEN server
                 ELSE IF cacheHit(server, filePath) THEN getFromCache(server, filePath)
                 ELSE addToCache(getFromCache(server, filePath), filePath, contentLength)
    /\ UNCHANGED <<mistakeVars, syncVars, serviceVars, stats, account>>

\* time passes
serverTick ==
    /\ server.clock < MaxServerTicks * ServerTick
    /\ server' = [server EXCEPT !.clock = @ + ServerTick]
    /\ UNCHANGED <<mistakeVars, syncVars, serviceVars, stats, account>>

InitServer == MistakesIdle /\ SyncIdle /\ ServicesIdle

NextServer ==
    \/ \E filePath \in Paths, exists \in BOOLEAN, contentLength \in FileSizes :
          sendFile(filePath, exists, contentLength)
    \/ serverTick

SpecServer == InitServer /\ [][NextServer]_vars

----------------------------------------------------------------------------
(* Properties of the file server's cache *)

RECURSIVE cachedLength(_)
cachedLength(cache) ==
    IF cache = <<>> THEN 0 ELSE Head(cache).length + cachedLength(Tail(cache))

\* C30 as stated: cacheSize is the total length of the cached entries and
\* is at most maxCacheSize; the entries addToCache evicted were removed
\* oldest first and none of them was newer than an entry it kept.
CacheWithinLimit ==
    /\ server.cacheSize = cachedLength(server.cache)
    /\ server.cacheSize <= maxCacheSize
    /\ \A i \in 1..Len(server.evicted) :
          /\ \A j \in 1..Len(server.evicted) :
                i < j => server.evicted[i] <= server.evicted[j]
          /\ \A t \in server.kept : server.evicted[i] <= t

====
